---- MODULE Spec2Model ----
(***************************************************************************)
(* Model of the multi-agent research pipeline of                           *)
(* src/research/providers/langchain_provider.py:                           *)
(*   ResearchSupervisor.decompose_query, ContextCompressor.compress_context,*)
(*   ResearchAgent.conduct_specialized_research and                        *)
(*   LangChainProvider.conduct_research / _synthesize_agent_results.       *)
(*                                                                         *)
(* Text is a sequence of characters.  An ASCII character is the string of  *)
(* that character; a non-ASCII character is the string "uXXXX" of its code *)
(* point, one element per character, so that lengths, slices and searches  *)
(* are those of the Python strings.                                        *)
(***************************************************************************)
EXTENDS Integers, Sequences, FiniteSets, TLC

VARIABLES
    provider,       \* the LangChainProvider object after __init__
    pc,             \* position of the thread inside conduct_research
    prompt,         \* the local variable prompt of conduct_research
    sub_queries,    \* the local variable sub_queries
    futures,        \* the submitted agent tasks, by index of submission
    pending,        \* futures as_completed has not yet yielded
    agent_results,  \* the local list agent_results
    exc,            \* the exception in flight inside the try block, or NoExc
    result,         \* what conduct_research gave its caller
    calls,          \* how often each collaborator was called
    log,            \* the messages written to the logger
    synth,          \* the invocation of _synthesize_agent_results, if any
    call            \* the component call made last, with its arguments

vars == <<provider, pc, prompt, sub_queries, futures, pending, agent_results,
          exc, result, calls, log, synth, call>>

(***************************************************************************)
(* String operations of Python used by the code.                           *)
(***************************************************************************)
Min(a, b) == IF a <= b THEN a ELSE b

Max(a, b) == IF a >= b THEN a ELSE b

\* s[:n] for n >= 0
Take(s, n) == SubSeq(s, 1, Min(n, Len(s)))

\* s[n:] for n >= 0
Drop(s, n) == SubSeq(s, n + 1, Len(s))

\* s[a:b] for a, b >= 0
Slice(s, a, b) == SubSeq(s, a + 1, Min(b, Len(s)))

\* s[-n:] for n > 0
LastN(s, n) == SubSeq(s, Max(1, Len(s) - n + 1), Len(s))

\* c in s, for a single character c
HasChar(s, c) == \E i \in 1..Len(s) : s[i] = c

\* s.find(c) for a single character c: the 0-based index, or -1
Find(s, c) ==
    IF HasChar(s, c)
    THEN (CHOOSE i \in 1..Len(s) : s[i] = c /\ \A j \in 1..(i - 1) : s[j] # c) - 1
    ELSE -1

\* sub in s
Contains(s, sub) ==
    \E i \in 0..(Len(s) - Len(sub)) : SubSeq(s, i + 1, i + Len(sub)) = sub

\* s.split(sub)[0]: the text before the first occurrence of sub
Before(s, sub) ==
    IF Contains(s, sub)
    THEN LET i == CHOOSE k \in 0..(Len(s) - Len(sub)) :
                      /\ SubSeq(s, k + 1, k + Len(sub)) = sub
                      /\ \A j \in 0..(k - 1) : SubSeq(s, j + 1, j + Len(sub)) # sub
         IN  Take(s, i)
    ELSE s

IsDigit(c) == c \in {"0", "1", "2", "3", "4", "5", "6", "7", "8", "9"}

IsSpace(c) == c \in {" ", "\n", "\t", "\r"}

RECURSIVE LStrip(_)
LStrip(s) == IF s # << >> /\ IsSpace(Head(s)) THEN LStrip(Tail(s)) ELSE s

RECURSIVE RStrip(_)
RStrip(s) ==
    IF s # << >> /\ IsSpace(s[Len(s)]) THEN RStrip(SubSeq(s, 1, Len(s) - 1)) ELSE s

\* s.strip()
Strip(s) == RStrip(LStrip(s))

\* s.split('\n')
RECURSIVE SplitLines(_)
SplitLines(s) ==
    IF HasChar(s, "\n")
    THEN LET i == Find(s, "\n")
         IN  <<Take(s, i)>> \o SplitLines(Drop(s, i + 1))
    ELSE <<s>>

LowerChar(c) ==
    CASE c = "P" -> "p" [] c = "R" -> "r" [] c = "I" -> "i" [] c = "O" -> "o"
      [] c = "T" -> "t" [] c = "Y" -> "y" [] c = "A" -> "a" [] c = "B" -> "b"
      [] c = "C" -> "c" [] c = "Q" -> "q"
      [] OTHER -> c

\* s.lower(), over the letters that occur in the modelled texts
Lower(s) == [i \in 1..Len(s) |-> LowerChar(s[i])]

\* the characters of s, n times
Repeat(s, n) == [i \in 1..(n * Len(s)) |-> s[((i - 1) % Len(s)) + 1]]

RECURSIVE Concat(_)
Concat(ss) == IF ss = << >> THEN << >> ELSE Head(ss) \o Concat(Tail(ss))

(***************************************************************************)
(* The text literals of the source.                                        *)
(***************************************************************************)
\* "gijutsu doukou to saishin no shinten", 10 characters
FallbackQuery1 ==
    << "u6280", "u8853", "u52d5", "u5411", "u3068", "u6700", "u65b0", "u306e", "u9032",
       "u5c55" >>

\* "jitsuyouka / jissou ni okeru kadai to kaiketsusaku", 16 characters
FallbackQuery2 ==
    << "u5b9f", "u7528", "u5316", "u30fb", "u5b9f", "u88c5", "u306b", "u304a", "u3051",
       "u308b", "u8ab2", "u984c", "u3068", "u89e3", "u6c7a", "u7b56" >>

\* "shourai no tenbou to eikyou bunseki", 10 characters
FallbackQuery3 ==
    << "u5c06", "u6765", "u306e", "u5c55", "u671b", "u3068", "u5f71", "u97ff", "u5206",
       "u6790" >>

\* "gijutsu doukou" (technology trends)
DomainTech == << "u6280", "u8853", "u52d5", "u5411" >>

\* "jissou shuhou" (implementation methods)
DomainImpl == << "u5b9f", "u88c5", "u624b", "u6cd5" >>

\* "shourai tenbou" (future outlook)
DomainFuture == << "u5c06", "u6765", "u5c55", "u671b" >>

\* "yuusendo:" (priority:)
PriorityMarkJa == << "u512a", "u5148", "u5ea6", ":" >>

\* "(yuusendo"
PriorityOpenJa == << "(", "u512a", "u5148", "u5ea6" >>

PriorityMarkEn == << "p", "r", "i", "o", "r", "i", "t", "y", ":" >>

PriorityOpenEn == << "(", "p", "r", "i", "o", "r", "i", "t", "y" >>

\* "\n\n[...naiyou ga kiritsumeraremashita...]", 22 characters
TruncationMarker ==
    << "\n", "\n", "[", ".", ".", ".", "u5185", "u5bb9", "u304c", "u5207", "u308a", "u8a70",
       "u3081", "u3089", "u308c", "u307e", "u3057", "u305f", ".", ".", ".", "]" >>

\* "kouzouka shutsuryoku no kaiseki ni shippai shimashita", 15 characters
ParseFailedText ==
    << "u69cb", "u9020", "u5316", "u51fa", "u529b", "u306e", "u89e3", "u6790", "u306b",
       "u5931", "u6557", "u3057", "u307e", "u3057", "u305f" >>

\* "kenkyuuchuu ni eraa ga hassei shimashita: ", 16 characters
AgentErrorPrefix ==
    << "u7814", "u7a76", "u4e2d", "u306b", "u30a8", "u30e9", "u30fc", "u304c", "u767a",
       "u751f", "u3057", "u307e", "u3057", "u305f", ":", " " >>

\* "## genjou bunseki\n"
HeadingCurrent == << "#", "#", " ", "u73fe", "u72b6", "u5206", "u6790", "\n" >>

\* "\n\n## juuyou na hakken / torendo\n"
HeadingFindings ==
    << "\n", "\n", "#", "#", " ", "u91cd", "u8981", "u306a", "u767a", "u898b", "u30fb",
       "u30c8", "u30ec", "u30f3", "u30c9", "\n" >>

\* "\n\n## jitsuyouka e no shisa\n"
HeadingInsights ==
    << "\n", "\n", "#", "#", " ", "u5b9f", "u7528", "u5316", "u3078", "u306e", "u793a",
       "u5506", "\n" >>

\* "\n\n## kongo no tenbou\n"
HeadingProspects ==
    << "\n", "\n", "#", "#", " ", "u4eca", "u5f8c", "u306e", "u5c55", "u671b", "\n" >>

\* "kenkyuu kekka no tougou ni shippai shimashita.", 15 characters
SynthesisFailedText ==
    << "u7814", "u7a76", "u7d50", "u679c", "u306e", "u7d71", "u5408", "u306b", "u5931",
       "u6557", "u3057", "u307e", "u3057", "u305f", "u3002" >>

(***************************************************************************)
(* Values shared by the components.                                        *)
(***************************************************************************)
\* An optional value is a sequence of no element (None) or of one.
None == << >>

Some(x) == << x >>

NoExc == [type |-> "none"]

\* context[:500] of the fallback and free-text sub-queries
ContextLimit == 500

SubQuery(q, p, d, c) == [query |-> q, priority |-> p, domain |-> d, context |-> c]

\* A prompt-template file as _load_prompt_template meets it: whether the
\* configuration names a path, whether the file can be read, and whether
\* str.format accepts its text with the keyword arguments of the caller.
PromptFile(path_set, readable, formattable) ==
    [path_set |-> path_set, readable |-> readable, formattable |-> formattable]

PromptFiles ==
    { PromptFile(FALSE, FALSE, FALSE),   \* no path configured
      PromptFile(TRUE, FALSE, FALSE),    \* the file cannot be opened
      PromptFile(TRUE, TRUE, TRUE),      \* a template with the expected fields
      PromptFile(TRUE, TRUE, FALSE) }    \* a template str.format rejects

\* _load_prompt_template: the template to use and what was logged.  The
\* fallback_content every caller passes formats with the caller's arguments.
_load_prompt_template(file) ==
    IF ~file.path_set
    THEN [formattable |-> TRUE, source |-> "fallback",
          log |-> {"warning: prompt path not found in config, using fallback"}]
    ELSE IF ~file.readable
    THEN [formattable |-> TRUE, source |-> "fallback",
          log |-> {"error: Failed to load prompt template"}]
    ELSE [formattable |-> file.formattable, source |-> "file", log |-> {}]

\* What a component call gives its caller: a value or an exception, with the
\* collaborator calls it made and the messages it logged.
Returned(v, llm, search, lg) ==
    [raised |-> FALSE, value |-> v, exc |-> NoExc, llm |-> llm, search |-> search, log |-> lg]

Raised(e, llm, search, lg) ==
    [raised |-> TRUE, value |-> None, exc |-> e, llm |-> llm, search |-> search, log |-> lg]

KeyError == [type |-> "KeyError"]

TypeError == [type |-> "TypeError"]

ValueError == [type |-> "ValueError"]

TimeoutError == [type |-> "TimeoutError"]

(***************************************************************************)
(* ResearchSupervisor.decompose_query                                      *)
(***************************************************************************)
\* Mutant: the fallback sub-queries carry the whole context.
FallbackSubQueries_WholeContext(context) ==
    << SubQuery(FallbackQuery1, 1, DomainTech, context),
       SubQuery(FallbackQuery2, 2, DomainImpl, context),
       SubQuery(FallbackQuery3, 2, DomainFuture, context) >>

\* The three fixed sub-queries of both fallback returns.
FallbackSubQueries(context) ==
    << SubQuery(FallbackQuery1, 1, DomainTech, Take(context, ContextLimit)),
       SubQuery(FallbackQuery2, 2, DomainImpl, Take(context, ContextLimit)),
       SubQuery(FallbackQuery3, 2, DomainFuture, Take(context, ContextLimit)) >>

\* The body of the loop over the lines of the free-text answer: the
\* sub-queries (none or one) the line adds.
ParseLine(line, context) ==
    IF /\ Strip(line) # << >>
       /\ \E i \in 1..Len(Take(line, 5)) : IsDigit(line[i])
       /\ HasChar(line, "[") /\ HasChar(line, "]")
    THEN LET domain_start == Find(line, "[") + 1
             domain_end   == Find(line, "]")
             domain       == Slice(line, domain_start, domain_end)
             query_part   == Strip(Drop(line, domain_end + 1))
             marked       == \/ Contains(query_part, PriorityMarkJa)
                             \/ Contains(Lower(query_part), PriorityMarkEn)
             priority     == IF ~marked THEN 2
                             ELSE IF HasChar(LastN(query_part, 10), "1") THEN 1
                             ELSE IF HasChar(LastN(query_part, 10), "3") THEN 3
                             ELSE 2
             query_text   == IF marked
                             THEN Strip(Before(Before(query_part, PriorityOpenJa),
                                               PriorityOpenEn))
                             ELSE query_part
         IN  << SubQuery(query_text, priority, domain, Take(context, ContextLimit)) >>
    ELSE << >>

RECURSIVE ParseLines(_, _)
ParseLines(lines, context) ==
    IF lines = << >> THEN << >>
    ELSE ParseLine(Head(lines), context) \o ParseLines(Tail(lines), context)

\* The list sub_queries built from the free-text answer.
ParseSubQueries(content, context) == ParseLines(SplitLines(Strip(content)), context)

\* What follows the loop at lines 148-156: the fixed fallback is returned
\* whatever was parsed; the return of sub_queries[:3] after it is never reached.
DecomposeAfterParse(parsed_queries, context) ==
    Returned(FallbackSubQueries(context), 1, 0,
             {"warning: Query decomposition failed, using fallback"})

\* decompose_query(query, context), given the template file it finds and the
\* answer of client.beta.chat.completions.parse:
\*   response.raises  the call (or reading choices[0]) raises
\*   response.parsed  message.parsed: None or a record with sub_queries
\*   response.content message.content: None or text
decompose_query(file, response, query, context) ==
    LET tmpl == _load_prompt_template(file)
    IN  IF ~tmpl.formattable
        THEN Raised(KeyError, 0, 0, tmpl.log)     \* line 102, outside the try
        ELSE IF response.raises
        THEN Returned(FallbackSubQueries(context), 1, 0,
                      tmpl.log \cup {"error: Error in query decomposition"})
        ELSE IF response.parsed # None /\ response.parsed[1].sub_queries # << >>
        THEN Returned(Take(response.parsed[1].sub_queries, 3), 1, 0, tmpl.log)
        ELSE IF response.content = None
        THEN \* content.strip() raises AttributeError inside the try
             Returned(FallbackSubQueries(context), 1, 0,
                      tmpl.log \cup {"error: Error in query decomposition"})
        ELSE LET r == DecomposeAfterParse(ParseSubQueries(response.content[1], context),
                                          context)
             IN  [r EXCEPT !.log = tmpl.log \cup r.log]

\* decompose_query of src/auto-research: no template file, no structured
\* answer; response is the answer of client.chat.completions.create.
decompose_query_auto_research(response, query, context) ==
    IF response.raises \/ response.content = None
    THEN Returned(FallbackSubQueries(context), 1, 0,
                  {"error: Error in query decomposition"})
    ELSE LET parsed_queries == ParseSubQueries(response.content[1], context)
         IN  IF Len(parsed_queries) < 3
             THEN Returned(FallbackSubQueries(context), 1, 0,
                           {"warning: Failed to parse sub-queries, using fallback"})
             ELSE Returned(Take(parsed_queries, 3), 1, 0, {})

(***************************************************************************)
(* ContextCompressor.compress_context                                      *)
(***************************************************************************)
\* Mutant: a failed compression hands back the original context.
compress_context_KeepsOriginal(file, response, context, threshold) ==
    IF Len(context) <= threshold
    THEN Returned(context, 0, 0, {})
    ELSE LET tmpl == _load_prompt_template(file)
         IN  IF ~tmpl.formattable
             THEN Raised(KeyError, 0, 0, tmpl.log)
             ELSE IF response.raises \/ response.content = None
             THEN Returned(context, 1, 0,
                           tmpl.log \cup {"error: Error in context compression"})
             ELSE Returned(response.content[1], 1, 0,
                           tmpl.log \cup {"info: Context compressed"})

\* response is the answer of client.chat.completions.create:
\*   response.raises, response.content (None or text)
compress_context(file, response, context, threshold) ==
    IF Len(context) <= threshold
    THEN Returned(context, 0, 0, {})
    ELSE LET tmpl == _load_prompt_template(file)
         IN  IF ~tmpl.formattable
             THEN Raised(KeyError, 0, 0, tmpl.log)     \* line 205, outside the try
             ELSE IF response.raises \/ response.content = None
             THEN \* len(None) in the log line raises TypeError inside the try
                  Returned(Take(context, threshold) \o TruncationMarker, 1, 0,
                           tmpl.log \cup {"error: Error in context compression"})
             ELSE Returned(response.content[1], 1, 0,
                           tmpl.log \cup {"info: Context compressed"})

(***************************************************************************)
(* ResearchAgent.conduct_specialized_research                              *)
(***************************************************************************)
\* A Python float (IEEE 754 binary64) of the range met here, 0.0 and
\* 0.0625 <= x < 4.0, is kept exactly as the number of 2^-56 it holds, written
\* in three digits of base 2^20:  x = (hi * 2^40 + mid * 2^20 + lo) * 2^-56.
Limb == 1048576

\* bits of the significand of a binary64
SignificandBits == 53

Float(hi, mid, lo) == [hi |-> hi, mid |-> mid, lo |-> lo]

FloatZero == Float(0, 0, 0)

RECURSIVE BitLen(_)
BitLen(n) == IF n = 0 THEN 0 ELSE 1 + BitLen(n \div 2)

RECURSIVE Pow2(_)
Pow2(k) == IF k = 0 THEN 1 ELSE 2 * Pow2(k - 1)

\* carries of a digit-wise result
Carry(hi, mid, lo) ==
    LET m == mid + (lo \div Limb)
    IN  Float(hi + (m \div Limb), m % Limb, lo % Limb)

FloatBits(x) ==
    IF x.hi > 0 THEN 2 * 20 + BitLen(x.hi)
    ELSE IF x.mid > 0 THEN 20 + BitLen(x.mid)
    ELSE BitLen(x.lo)

\* The binary64 nearest to x + rnum/rden units (0 <= rnum < rden), ties to the
\* even significand: the rounding every float operation ends with.
RoundNearestEven(x, rnum, rden) ==
    LET k    == Max(FloatBits(x) - SignificandBits, 0)
        u    == Pow2(k)
        low  == x.lo % u
        twice == 2 * (low * rden + rnum)
        odd  == (x.lo \div u) % 2 = 1
        up   == twice > u * rden \/ (twice = u * rden /\ odd)
    IN  IF up THEN Carry(x.hi, x.mid, x.lo - low + u)
        ELSE Float(x.hi, x.mid, x.lo - low)

\* a + b of two floats
FloatAdd(a, b) == RoundNearestEven(Carry(a.hi + b.hi, a.mid + b.mid, a.lo + b.lo), 0, 1)

\* a / n of a float by the int n > 0
FloatDivInt(a, n) ==
    LET t1 == (a.hi % n) * Limb + a.mid
        t2 == (t1 % n) * Limb + a.lo
    IN  RoundNearestEven(Float(a.hi \div n, t1 \div n, t2 \div n), t2 % n, n)

\* a <= b
FloatLeq(a, b) ==
    \/ a.hi < b.hi
    \/ a.hi = b.hi /\ a.mid < b.mid
    \/ a.hi = b.hi /\ a.mid = b.mid /\ a.lo <= b.lo

\* min(a, b): b only if b < a
FloatMin(a, b) == IF FloatLeq(a, b) THEN a ELSE b

\* The float literals of the code.
\* 0.7
BaseConfidence == Float(45875, 209715, 209712)

\* 0.2
SearchBonus == Float(13107, 209715, 209716)

\* 0.1
LengthBonus == Float(6553, 629145, 629146)

\* 0.1
FailureConfidence == Float(6553, 629145, 629146)

\* 1.0
ConfidenceOne == Float(65536, 0, 0)

\* len(content) > 1000 earns the length bonus
LongContentLength == 1000

\* r.get('content', '')[:500] of a source
SourceContentLimit == 500

DigitChar(d) ==
    CASE d = 0 -> "0" [] d = 1 -> "1" [] d = 2 -> "2" [] d = 3 -> "3" [] d = 4 -> "4"
      [] d = 5 -> "5" [] d = 6 -> "6" [] d = 7 -> "7" [] d = 8 -> "8" [] d = 9 -> "9"

\* str(n) for n >= 0
RECURSIVE Str(_)
Str(n) == IF n < 10 THEN << DigitChar(n) >> ELSE Str(n \div 10) \o << DigitChar(n % 10) >>

\* f"agent_{i}"
AgentId(i) == << "a", "g", "e", "n", "t", "_" >> \o Str(i)

ResearchContent(ca, kf, ii, fp) ==
    [current_analysis |-> ca, key_findings |-> kf,
     implementation_insights |-> ii, future_prospects |-> fp]

\* The four-section rendering of a ResearchContent (lines 315-326, 550-561,
\* 643-654).
RenderContent(c) ==
    HeadingCurrent \o c.current_analysis \o HeadingFindings \o c.key_findings
    \o HeadingInsights \o c.implementation_insights
    \o HeadingProspects \o c.future_prospects \o << "\n" >>

AgentResult(id, q, c, srcs, conf, d) ==
    [agent_id |-> id, query |-> q, content |-> c, sources |-> srcs,
     confidence_score |-> conf, domain |-> d]

\* sources built from the search results (line 266)
SourcesOf(results) ==
    [i \in 1..Len(results) |->
        [title |-> results[i].title, url |-> results[i].url,
         content |-> Take(results[i].content[1], SourceContentLimit)]]

\* The score of lines 331-335 and the clamp of line 347.
ConfidenceScore(search_results, content) ==
    LET base   == BaseConfidence
        s1     == IF search_results # << >> THEN FloatAdd(base, SearchBonus) ELSE base
        s2     == IF Len(content) > LongContentLength THEN FloatAdd(s1, LengthBonus) ELSE s1
    IN  FloatMin(s2, ConfidenceOne)

\* The AgentResult of the except branch (lines 351-365).
AgentFailure(agent_id, sub_query, msg) ==
    AgentResult(agent_id, sub_query.query,
                ResearchContent(AgentErrorPrefix \o msg, << >>, << >>, << >>),
                << >>, FailureConfidence, sub_query.domain)

\* Mutant: an answer without a parsed ResearchContent is treated as a failure.
AgentTry_ParseFailureIsError(agent_id, sub_query, search_results, sources, chat, lg) ==
    IF chat.raises \/ chat.parsed = None
    THEN Returned(AgentFailure(agent_id, sub_query, ParseFailedText), 1, 0,
                  lg \cup {"error: Agent research failed"})
    ELSE Returned(AgentResult(agent_id, sub_query.query, chat.parsed[1], sources,
                              ConfidenceScore(search_results,
                                              RenderContent(chat.parsed[1])),
                              sub_query.domain),
                  1, 0, lg)

\* What the try block of lines 304-349 does with the answer of
\* openai_client.beta.chat.completions.parse; an exception of the call is
\* caught by the except branch of line 351.
AgentTry(agent_id, sub_query, search_results, sources, chat, lg) ==
    IF chat.raises
    THEN Returned(AgentFailure(agent_id, sub_query, chat.msg), 1, 0,
                  lg \cup {"error: Agent research failed"})
    ELSE LET research_content == chat.parsed
             content == IF research_content # None
                        THEN RenderContent(research_content[1])
                        ELSE ParseFailedText
             final   == IF research_content # None
                        THEN research_content[1]
                        ELSE ResearchContent(content, << >>, << >>, << >>)
         IN  Returned(AgentResult(agent_id, sub_query.query, final, sources,
                                  ConfidenceScore(search_results, content),
                                  sub_query.domain),
                      1, 0, lg)

\* Mutant: the search answer is used without a search client.
SearchResultsOf_NoClientCheck(search_client, tavily, search) ==
    IF ~search.raises THEN search.results ELSE << >>

\* search_results after lines 255-269: the results of the search call, made
\* only with a search client and TAVILY_AVAILABLE; [] when it raises.
SearchResultsOf(search_client, tavily, search) ==
    IF search_client /\ tavily /\ ~search.raises THEN search.results ELSE << >>

\* conduct_specialized_research(sub_query) of the agent agent_id, given
\*   search_client, tavily   the agent's search client and TAVILY_AVAILABLE
\*   search   the answer of search_client.search: raises, results
\*            (each with title, url and content, content None or text)
\*   file     the template file _load_prompt_template finds
\*   chat     the answer of the chat call: raises, msg, parsed
conduct_specialized_research(agent_id, search_client, tavily, sub_query, search, file, chat) ==
    LET searched       == search_client /\ tavily
        got            == searched /\ ~search.raises
        search_results == SearchResultsOf(search_client, tavily, search)
        contents_ok    == \A i \in 1..Len(search_results) : search_results[i].content # None
        sources        == IF got /\ contents_ok THEN SourcesOf(search_results) ELSE << >>
        n_search       == IF searched THEN 1 ELSE 0
        lg0            == {"info: Agent researching"}
                          \cup (IF searched /\ (search.raises \/ ~contents_ok)
                                THEN {"warning: Search API error"} ELSE {})
        tmpl           == _load_prompt_template(file)
    IN  IF ~contents_ok
        THEN Raised(TypeError, 0, n_search, lg0)                        \* line 276
        ELSE IF ~tmpl.formattable
        THEN Raised(KeyError, 0, n_search, lg0 \cup tmpl.log)            \* line 297
        ELSE LET r == AgentTry(agent_id, sub_query, search_results, sources, chat,
                               lg0 \cup tmpl.log)
             IN  [r EXCEPT !.search = n_search]

(***************************************************************************)
(* LangChainProvider._synthesize_agent_results                             *)
(***************************************************************************)
\* "# tougou kenkyuu repooto\n\n"
ReportTitle ==
    << "#", " ", "u7d71", "u5408", "u7814", "u7a76", "u30ec", "u30dd", "u30fc", "u30c8",
       "\n", "\n" >>

\* "bun'ya no bunseki\n\n", the end of the heading of a fallback section
FallbackHeadingEnd == << "u5206", "u91ce", "u306e", "u5206", "u6790", "\n", "\n" >>

\* "## eguzekutibu samarii\n"
HeadingSummary ==
    << "#", "#", " ", "u30a8", "u30b0", "u30bc", "u30af", "u30c6", "u30a3",
       "u30d6", "u30b5", "u30de", "u30ea", "u30fc", "\n" >>

\* "\n\n## shuyou na hakken jikou\n"
HeadingMainFindings ==
    << "\n", "\n", "#", "#", " ", "u4e3b", "u8981", "u306a", "u767a", "u898b", "u4e8b",
       "u9805", "\n" >>

\* "\n\n## bun'ya oudanteki na dousatsu\n"
HeadingCrossDomain ==
    << "\n", "\n", "#", "#", " ", "u5206", "u91ce", "u6a2a", "u65ad", "u7684", "u306a",
       "u6d1e", "u5bdf", "\n" >>

\* "\n\n## jissou / jissen e no teigen\n"
HeadingRecommendations ==
    << "\n", "\n", "#", "#", " ", "u5b9f", "u88c5", "u30fb", "u5b9f", "u8df5", "u3078",
       "u306e", "u63d0", "u8a00", "\n" >>

\* "\n\n## kongo no kenkyuu kadai\n"
HeadingFutureTopics ==
    << "\n", "\n", "#", "#", " ", "u4eca", "u5f8c", "u306e", "u7814", "u7a76", "u8ab2",
       "u984c", "\n" >>

\* "tougou repooto no seisei ni shippai shimashita", 16 characters
ReportFailedText ==
    << "u7d71", "u5408", "u30ec", "u30dd", "u30fc", "u30c8", "u306e", "u751f", "u6210",
       "u306b", "u5931", "u6557", "u3057", "u307e", "u3057", "u305f" >>

\* "\n\n## kenkyuu jikkou shousai\n\n"
SummaryHeading ==
    << "\n", "\n", "#", "#", " ", "u7814", "u7a76", "u5b9f", "u884c", "u8a73", "u7d30",
       "\n", "\n" >>

\* "- jikkou eejento suu: "
SummaryCount ==
    << "-", " ", "u5b9f", "u884c", "u30a8", "u30fc", "u30b8", "u30a7", "u30f3", "u30c8",
       "u6570", ":", " " >>

\* "- heikin shinraido sukoa: "
SummaryMean ==
    << "-", " ", "u5e73", "u5747", "u4fe1", "u983c", "u5ea6", "u30b9", "u30b3", "u30a2",
       ":", " " >>

\* "- senmon bun'ya: "
SummaryDomains == << "-", " ", "u5c02", "u9580", "u5206", "u91ce", ":", " " >>

\* sum(r.confidence_score for r in agent_results): from the int 0, one float
\* addition per result, left to right
RECURSIVE SumConfidence(_)
SumConfidence(rs) ==
    IF rs = << >> THEN FloatZero
    ELSE FloatAdd(SumConfidence(SubSeq(rs, 1, Len(rs) - 1)), rs[Len(rs)].confidence_score)

\* 2^56 units make 1.0: 2^16 in the digit hi
UnitsHi == 65536

\* f"{x:.2f}": the hundredths nearest to the exact value of x, ties to even
Format2f(x) ==
    LET p    == Carry(100 * x.hi, 100 * x.mid, 100 * x.lo)
        c    == p.hi \div UnitsHi
        frac == Float(p.hi % UnitsHi, p.mid, p.lo)
        half == Float(UnitsHi \div 2, 0, 0)
        h    == IF frac = half THEN c + (c % 2)
                ELSE IF FloatLeq(frac, half) THEN c ELSE c + 1
    IN  Str(h \div 100) \o << "." >> \o << DigitChar((h \div 10) % 10), DigitChar(h % 10) >>

\* ", ".join(r.domain for r in agent_results)
RECURSIVE JoinDomains(_)
JoinDomains(rs) ==
    IF rs = << >> THEN << >>
    ELSE IF Len(rs) = 1 THEN Head(rs).domain
    ELSE Head(rs).domain \o << ",", " " >> \o JoinDomains(Tail(rs))

\* agent_summary (lines 630-633)
AgentSummary(rs) ==
    SummaryHeading
    \o SummaryCount \o Str(Len(rs)) \o << "\n" >>
    \o SummaryMean \o Format2f(FloatDivInt(SumConfidence(rs), Len(rs))) \o << "\n" >>
    \o SummaryDomains \o JoinDomains(rs) \o << "\n" >>

FinalReport(es, mf, cd, ar, ft) ==
    [executive_summary |-> es, main_findings |-> mf, cross_domain_insights |-> cd,
     actionable_recommendations |-> ar, future_research_topics |-> ft]

\* synthesized_content of a parsed FinalReport (lines 609-625)
RenderReport(r) ==
    ReportTitle \o HeadingSummary \o r.executive_summary
    \o HeadingMainFindings \o r.main_findings
    \o HeadingCrossDomain \o r.cross_domain_insights
    \o HeadingRecommendations \o r.actionable_recommendations
    \o HeadingFutureTopics \o r.future_research_topics \o << "\n" >>

\* fallback_content of the except branch (lines 640-658)
RECURSIVE FallbackSections(_)
FallbackSections(rs) ==
    IF rs = << >> THEN << >>
    ELSE << "#", "#", " " >> \o Head(rs).domain \o FallbackHeadingEnd
         \o RenderContent(Head(rs).content) \o << "\n", "\n" >>
         \o FallbackSections(Tail(rs))

\* Mutant: the fallback text leaves out the last result.
SynthesisFallback_DropsLast(rs) ==
    ReportTitle \o FallbackSections(SubSeq(rs, 1, Len(rs) - 1))

\* fallback_content of the except branch (lines 640-657)
SynthesisFallback(rs) == ReportTitle \o FallbackSections(rs)

\* A str value where the code may hold a str or an object: the ResearchContent
\* objects are the records of ResearchContent.
PyStr(text) == [str |-> text]

\* _synthesize_agent_results(agent_results), given the template file found and
\* the answer of the structured chat call: raises, parsed (None or FinalReport).
\* With one result the value is that result's content object itself.
_synthesize_agent_results(rs, file, response) ==
    IF rs = << >>
    THEN Returned(PyStr(SynthesisFailedText), 0, 0, {})
    ELSE IF Len(rs) = 1
    THEN Returned(rs[1].content, 0, 0, {})
    ELSE LET tmpl == _load_prompt_template(file)
         IN  IF ~tmpl.formattable
             THEN Raised(KeyError, 0, 0, tmpl.log)     \* line 596, outside the try
             ELSE IF response.raises
             THEN Returned(PyStr(SynthesisFallback(rs)), 1, 0,
                           tmpl.log \cup {"error: Synthesis failed"})
             ELSE Returned(PyStr((IF response.parsed # None
                                  THEN RenderReport(response.parsed[1])
                                  ELSE ReportFailedText) \o AgentSummary(rs)),
                           1, 0, tmpl.log)

(***************************************************************************)
(* Inputs of the pipeline model.                                           *)
(***************************************************************************)
\* MAX_SUB_AGENTS is drawn from 0..MaxConfiguredAgents
MaxConfiguredAgents == 4

\* CONTEXT_COMPRESSION_THRESHOLD of the modelled configurations
SmallThreshold == 2

\* prompt[:1000] is the decomposition context
DecompositionContextLimit == 1000

\* A prompt within the threshold and one a character past it.
Prompts == { << "a" >>, Repeat(<< "a" >>, SmallThreshold) \o << "b" >> }

SampleSubQuery(k) ==
    SubQuery(<< "q", DigitChar(k) >>, Min(k, 3), << "D", DigitChar(k) >>, << >>)

SampleSubQueries(n) == [k \in 1..n |-> SampleSubQuery(k)]

\* Answers of the structured decomposition call.
StructuredAnswers ==
    { [raises |-> TRUE, parsed |-> None, content |-> None] }
    \cup { [raises |-> FALSE, parsed |-> Some([sub_queries |-> SampleSubQueries(n)]),
            content |-> Some(<< >>)] : n \in 0..4 }

\* Answers of the unstructured compression call.
CompletionAnswers ==
    { [raises |-> TRUE, content |-> None],
      [raises |-> FALSE, content |-> None],
      [raises |-> FALSE, content |-> Some(<< "s" >>)] }

SampleSearchResult ==
    [title |-> << "T" >>, url |-> << "U" >>, content |-> Some(<< "c" >>)]

SampleContent == ResearchContent(<< "w" >>, << "x" >>, << "y" >>, << "z" >>)

SampleReport == FinalReport(<< "e" >>, << "m" >>, << "c" >>, << "r" >>, << "f" >>)

ErrorMessage == << "b", "o", "o", "m" >>

GoodFile == PromptFile(TRUE, TRUE, TRUE)

BadFile == PromptFile(TRUE, TRUE, FALSE)

AgentEnv(search, file, chat) == [search |-> search, file |-> file, chat |-> chat]

ChatParsed(c) == [raises |-> FALSE, msg |-> << >>, parsed |-> c]

ChatRaises == [raises |-> TRUE, msg |-> ErrorMessage, parsed |-> None]

SearchFound == [raises |-> FALSE, results |-> << SampleSearchResult >>]

SearchRaises == [raises |-> TRUE, results |-> << >>]

\* What an agent of the pipeline meets: a search answer, a template file and a
\* chat answer.
PipelineAgentEnvs ==
    { AgentEnv(SearchFound, GoodFile, ChatParsed(Some(SampleContent))),
      AgentEnv(SearchRaises, GoodFile, ChatRaises),
      AgentEnv(SearchRaises, GoodFile, ChatParsed(Some(SampleContent))),
      AgentEnv(SearchFound, BadFile, ChatParsed(Some(SampleContent))) }

SynthesisAnswers ==
    { [raises |-> TRUE, parsed |-> None],
      [raises |-> FALSE, parsed |-> None],
      [raises |-> FALSE, parsed |-> Some(SampleReport)] }

(***************************************************************************)
(* LangChainProvider.__init__                                              *)
(***************************************************************************)
\* _setup_openai_client: whether self.openai_client is set
_setup_openai_client(config, ctor_raises) ==
    /\ config.AZURE_OPENAI_API_KEY
    /\ config.AZURE_OPENAI_BASE_URL
    /\ ~ctor_raises

\* _setup_search_client: whether self.search_client is set
_setup_search_client(tavily_key, ctor_raises) == tavily_key /\ ~ctor_raises

\* The provider after __init__.  config keeps the keys read after
\* construction; the flags say which members are not None.
NewProvider(config, openai_available, tavily_available, tavily_key, openai_ctor_raises, tavily_ctor_raises, max_agents, threshold) ==
    LET client == openai_available /\ _setup_openai_client(config, openai_ctor_raises)
    IN  [config |-> config,
         OPENAI_AVAILABLE |-> openai_available,
         TAVILY_AVAILABLE |-> tavily_available,
         openai_client |-> client,
         search_client |-> tavily_available
                           /\ _setup_search_client(tavily_key, tavily_ctor_raises),
         supervisor |-> client,
         compressor |-> client,
         max_sub_agents |-> max_agents,
         context_compression_threshold |-> threshold]

\* The default of MAX_SUB_AGENTS (line 391).
DefaultMaxSubAgents == 3

Configs == [AZURE_OPENAI_API_KEY : BOOLEAN, AZURE_OPENAI_BASE_URL : BOOLEAN]

Providers ==
    { NewProvider(c, oa, ta, tk, ocr, tcr, m, SmallThreshold) :
        c \in Configs, oa \in BOOLEAN, ta \in BOOLEAN, tk \in BOOLEAN,
        ocr \in BOOLEAN, tcr \in BOOLEAN, m \in 0..MaxConfiguredAgents }

\* validate_config
validate_config(p) ==
    /\ p.config.AZURE_OPENAI_API_KEY
    /\ p.config.AZURE_OPENAI_BASE_URL
    /\ p.OPENAI_AVAILABLE

(***************************************************************************)
(* LangChainProvider.conduct_research                                      *)
(***************************************************************************)
NoCalls == [compress |-> 0, decompose |-> 0, agent |-> 0, search |-> 0, synthesis |-> 0]

NoSynthesis == [invoked |-> FALSE, input |-> << >>, unfinished |-> {}]

NoCall == [fn |-> "none"]

NotReturned == [kind |-> "pending"]

ReturnedNone == [kind |-> "None"]

\* The template files met inside the pipeline.
PipelineFiles == { PromptFile(FALSE, FALSE, FALSE), BadFile }

\* Mutant: the timeout handler returns what the finished agents produced.
TopLevelHandler_PartialOnTimeout(e) ==
    IF e.type = "TimeoutError"
    THEN [result |-> [kind |-> "dict", content |-> PyStr(<< >>), search_results |-> << >>,
                      agent_results |-> Len(agent_results),
                      confidence_score |-> FloatZero],
          log |-> {"error: Multi-agent execution timeout"}]
    ELSE [result |-> [kind |-> "None"], log |-> {"error: LangChain research failed"}]

\* Mutant: only the timeout is caught; any other exception reaches the caller.
TopLevelHandler_TimeoutOnly(e) ==
    IF e.type = "TimeoutError"
    THEN [result |-> [kind |-> "None"], log |-> {"error: Multi-agent execution timeout"}]
    ELSE [result |-> [kind |-> "raised", exc |-> e], log |-> {}]

\* The two except clauses of conduct_research (lines 529-534): what the caller
\* gets and what is logged when e leaves the try block.
TopLevelHandler(e) ==
    IF e.type = "TimeoutError"
    THEN [result |-> ReturnedNone, log |-> {"error: Multi-agent execution timeout"}]
    ELSE [result |-> ReturnedNone, log |-> {"error: LangChain research failed"}]

\* Mutant: the guard tests the configuration but not the client.
FailFast_ConfigOnly(p) ==
    ~(p.config.AZURE_OPENAI_API_KEY /\ p.config.AZURE_OPENAI_BASE_URL
      /\ p.OPENAI_AVAILABLE)

\* The guard of line 472.
FailFast(p) == ~validate_config(p) \/ ~p.openai_client

\* What validate_config logs.
ValidateLog(p) ==
    IF ~p.config.AZURE_OPENAI_API_KEY \/ ~p.config.AZURE_OPENAI_BASE_URL
    THEN {"error: Required configuration not found"}
    ELSE IF ~p.OPENAI_AVAILABLE THEN {"error: OpenAI library not available"}
    ELSE {}

\* executor.__exit__ is shutdown(wait=True): it returns once no submitted task
\* is still running.
PoolShutdownDone(fs) == \A i \in DOMAIN fs : fs[i].state # "running"

\* as_completed has yielded every future: the for loop of line 502 ends.
AllYielded(pend, fs) == pend = {}

\* Mutant: every sub-query is submitted.
Dispatched_All(qs, max_agents) == qs

\* sub_queries[:self.max_sub_agents], the tasks submitted (line 497)
Dispatched(qs, max_agents) == Take(qs, max_agents)

\* all_sources (lines 518-520)
RECURSIVE AllSources(_)
AllSources(rs) == IF rs = << >> THEN << >> ELSE Head(rs).sources \o AllSources(Tail(rs))

\* Mutant: the sum of the scores is reported, not their mean.
MeanConfidence_SumOnly(rs) == SumConfidence(rs)

\* The mean of line 526; 0.0 for no result.
MeanConfidence(rs) ==
    IF rs = << >> THEN FloatZero ELSE FloatDivInt(SumConfidence(rs), Len(rs))

\* The dictionary returned at lines 522-527.
ResearchResult(final_content, rs) ==
    [kind |-> "dict", content |-> final_content, search_results |-> AllSources(rs),
     agent_results |-> Len(rs), confidence_score |-> MeanConfidence(rs)]

\* An exception e leaves the try block: conduct_research ends in its handler.
Fail(e, lg) ==
    /\ pc' = "done"
    /\ exc' = e
    /\ result' = TopLevelHandler(e).result
    /\ log' = log \cup lg \cup TopLevelHandler(e).log

\* Lines 472-476.
Enter ==
    /\ pc = "idle"
    /\ IF FailFast(provider)
       THEN /\ pc' = "done"
            /\ result' = ReturnedNone
            /\ log' = log \cup ValidateLog(provider)
       ELSE /\ pc' = "compress"
            /\ log' = log \cup {"info: Starting LangChain multi-agent research"}
            /\ UNCHANGED result
    /\ UNCHANGED <<provider, prompt, sub_queries, futures, pending, agent_results,
                   exc, calls, synth, call>>

\* Lines 479-480.
Compress ==
    /\ pc = "compress"
    /\ IF provider.compressor /\ Len(prompt) > provider.context_compression_threshold
       THEN \E file \in PipelineFiles, answer \in CompletionAnswers :
                LET r == compress_context(file, answer, prompt,
                                          provider.context_compression_threshold)
                IN  /\ calls' = [calls EXCEPT !.compress = @ + r.llm]
                    /\ call' = [fn |-> "compress_context", context |-> prompt,
                                threshold |-> provider.context_compression_threshold]
                    /\ IF r.raised
                       THEN Fail(r.exc, r.log) /\ UNCHANGED prompt
                       ELSE /\ prompt' = r.value
                            /\ pc' = "decompose"
                            /\ log' = log \cup r.log
                            /\ UNCHANGED <<exc, result>>
       ELSE /\ pc' = "decompose"
            /\ UNCHANGED <<prompt, calls, log, exc, result, call>>
    /\ UNCHANGED <<provider, sub_queries, futures, pending, agent_results, synth>>

\* Lines 483-487.  Without a supervisor SubQuery is built from positional
\* arguments, which the pydantic model rejects with TypeError.
Decompose ==
    /\ pc = "decompose"
    /\ IF provider.supervisor
       THEN \E file \in PipelineFiles, answer \in StructuredAnswers :
                LET r == decompose_query(file, answer, prompt,
                                         Take(prompt, DecompositionContextLimit))
                IN  /\ calls' = [calls EXCEPT !.decompose = @ + r.llm]
                    /\ call' = [fn |-> "decompose_query", query |-> prompt,
                                context |-> Take(prompt, DecompositionContextLimit)]
                    /\ IF r.raised
                       THEN Fail(r.exc, r.log) /\ UNCHANGED sub_queries
                       ELSE /\ sub_queries' = r.value
                            /\ pc' = "dispatch"
                            /\ log' = log \cup r.log
                            /\ UNCHANGED <<exc, result>>
       ELSE Fail(TypeError, {}) /\ UNCHANGED <<sub_queries, calls, call>>
    /\ UNCHANGED <<provider, prompt, futures, pending, agent_results, synth>>

\* Lines 490-500 and 508-512: the pool is created and one task is submitted per
\* dispatched sub-query, or the single agent runs on the calling thread.
\* ThreadPoolExecutor(max_workers) raises ValueError for max_workers <= 0.
Dispatch ==
    /\ pc = "dispatch"
    /\ IF Len(sub_queries) > 1
       THEN IF provider.max_sub_agents <= 0
            THEN Fail(ValueError, {})
                 /\ UNCHANGED <<futures, pending, agent_results, calls>>
            ELSE LET tasks == Dispatched(sub_queries, provider.max_sub_agents)
                 IN  /\ futures' = [i \in 1..Len(tasks) |->
                                      [state |-> "running", sub_query |-> tasks[i],
                                       result |-> None]]
                     /\ pending' = 1..Len(tasks)
                     /\ pc' = "collect"
                     /\ UNCHANGED <<agent_results, calls, log, exc, result>>
       ELSE \E env \in PipelineAgentEnvs :
                LET r == conduct_specialized_research(
                             AgentId(1), provider.search_client,
                             provider.TAVILY_AVAILABLE, sub_queries[1],
                             env.search, env.file, env.chat)
                IN  /\ calls' = [calls EXCEPT !.agent = @ + r.llm, !.search = @ + r.search]
                    /\ IF r.raised
                       THEN Fail(r.exc, r.log) /\ UNCHANGED agent_results
                       ELSE /\ agent_results' = Append(agent_results, r.value)
                            /\ pc' = "synthesize"
                            /\ log' = log \cup r.log
                            /\ UNCHANGED <<exc, result>>
                    /\ UNCHANGED <<futures, pending>>
    /\ UNCHANGED <<provider, prompt, sub_queries, synth, call>>

\* A worker thread of the pool runs agent i to its end (line 499).
AgentRun(i) ==
    /\ i \in DOMAIN futures
    /\ futures[i].state = "running"
    /\ \E env \in PipelineAgentEnvs :
           LET r == conduct_specialized_research(
                        AgentId(i), provider.search_client, provider.TAVILY_AVAILABLE,
                        futures[i].sub_query, env.search, env.file, env.chat)
           IN  /\ futures' = [futures EXCEPT
                                ![i].state = IF r.raised THEN "raised" ELSE "returned",
                                ![i].result = r.value]
               /\ calls' = [calls EXCEPT !.agent = @ + r.llm, !.search = @ + r.search]
               /\ log' = log \cup r.log
    /\ UNCHANGED <<provider, pc, prompt, sub_queries, pending, agent_results,
                   exc, result, synth, call>>

\* as_completed yields the finished future i (lines 502-507).
Collect(i) ==
    /\ pc = "collect"
    /\ i \in pending
    /\ futures[i].state # "running"
    /\ pending' = pending \ {i}
    /\ IF futures[i].state = "returned"
       THEN /\ agent_results' = Append(agent_results, futures[i].result)
            /\ UNCHANGED log
       ELSE /\ log' = log \cup {"error: Agent execution error"}
            /\ UNCHANGED agent_results
    /\ UNCHANGED <<provider, pc, prompt, sub_queries, futures, exc, result, calls,
                   synth, call>>

\* The for loop of line 502 ends.
LoopEnd ==
    /\ pc = "collect"
    /\ AllYielded(pending, futures)
    /\ pc' = "pool_exit"
    /\ UNCHANGED <<provider, prompt, sub_queries, futures, pending, agent_results,
                   exc, result, calls, log, synth, call>>

\* as_completed raises TimeoutError: the deadline passed with futures not yet
\* yielded (line 502).
Timeout ==
    /\ pc = "collect"
    /\ pending # {}
    /\ exc' = TimeoutError
    /\ pc' = "pool_exit"
    /\ UNCHANGED <<provider, prompt, sub_queries, futures, pending, agent_results,
                   result, calls, log, synth, call>>

\* Mutant: the pool is left without joining its workers and the timeout is
\* swallowed, so the request goes on to synthesis.
PoolExit_NoBarrier ==
    /\ pc = "pool_exit"
    /\ pc' = "synthesize"
    /\ UNCHANGED <<provider, prompt, sub_queries, futures, pending, agent_results,
                   exc, result, calls, log, synth, call>>

\* The with block of line 494 is left, normally or by the TimeoutError.
PoolExit ==
    /\ pc = "pool_exit"
    /\ PoolShutdownDone(futures)
    /\ IF exc = NoExc
       THEN pc' = "synthesize" /\ UNCHANGED <<exc, result, log>>
       ELSE Fail(exc, {})
    /\ UNCHANGED <<provider, prompt, sub_queries, futures, pending, agent_results,
                   calls, synth, call>>

\* Lines 515-527.
Synthesize ==
    /\ pc = "synthesize"
    /\ \E file \in PipelineFiles, answer \in SynthesisAnswers :
           LET r == _synthesize_agent_results(agent_results, file, answer)
           IN  /\ synth' = [invoked |-> TRUE, input |-> agent_results,
                            unfinished |-> {i \in DOMAIN futures :
                                                futures[i].state = "running"}]
               /\ calls' = [calls EXCEPT !.synthesis = @ + r.llm]
               /\ IF r.raised
                  THEN Fail(r.exc, r.log)
                  ELSE /\ pc' = "done"
                       /\ result' = ResearchResult(r.value, agent_results)
                       /\ log' = log \cup r.log
                       /\ UNCHANGED exc
    /\ UNCHANGED <<provider, prompt, sub_queries, futures, pending, agent_results, call>>

Init ==
    /\ provider \in Providers
    /\ pc = "idle"
    /\ prompt \in Prompts
    /\ sub_queries = << >>
    /\ futures = << >>
    /\ pending = {}
    /\ agent_results = << >>
    /\ exc = NoExc
    /\ result = NotReturned
    /\ calls = NoCalls
    /\ log = {}
    /\ synth = NoSynthesis
    /\ call = NoCall

Next ==
    \/ Enter
    \/ Compress
    \/ Decompose
    \/ Dispatch
    \/ \E i \in 1..3 : AgentRun(i)
    \/ \E i \in 1..3 : Collect(i)
    \/ LoopEnd
    \/ Timeout
    \/ PoolExit
    \/ Synthesize

Spec == Init /\ [][Next]_vars

(***************************************************************************)
(* The components called on their own: one call, its arguments drawn from  *)
(* the sets below, and what it gave.                                       *)
(***************************************************************************)
\* contexts reach up to MaxContextOver characters past ContextLimit
MaxContextOver == 2

Contexts ==
    { Repeat(<< "a" >>, n) \o Repeat(<< "b" >>, m) :
        n \in {1, ContextLimit - 1, ContextLimit}, m \in 0..MaxContextOver }

Queries == { << "q" >>, << "r", "s" >> }

\* "1. [AI] q1 (yuusendo: 1)\n2. [DB] q2 (yuusendo: 2)\n3. [UX] q3 (yuusendo: 3)"
ThreeLineAnswer ==
    << "1", ".", " ", "[", "A", "I", "]", " ", "q", "1", " ", "(", "u512a", "u5148",
       "u5ea6", ":", " ", "1", ")", "\n", "2", ".", " ", "[", "D", "B", "]", " ", "q", "2",
       " ", "(", "u512a", "u5148", "u5ea6", ":", " ", "2", ")", "\n", "3", ".", " ", "[",
       "U", "X", "]", " ", "q", "3", " ", "(", "u512a", "u5148", "u5ea6", ":", " ", "3",
       ")" >>

\* "\n1. [AI] q1 (yuusendo: 1)\n2. [DB] q2 (Priority: 3)\n"
TwoLineAnswer ==
    << "\n", "1", ".", " ", "[", "A", "I", "]", " ", "q", "1", " ", "(", "u512a", "u5148",
       "u5ea6", ":", " ", "1", ")", "\n", "2", ".", " ", "[", "D", "B", "]", " ", "q", "2",
       " ", "(", "P", "r", "i", "o", "r", "i", "t", "y", ":", " ", "3", ")", "\n" >>

\* "1. [AI] q1 (yuusendo: 1)\n2. [DB] q2\n3. [UX] q3 (yuusendo: 3)\n4. [ML] q4 (yuusendo: 2)"
FourLineAnswer ==
    << "1", ".", " ", "[", "A", "I", "]", " ", "q", "1", " ", "(", "u512a", "u5148",
       "u5ea6", ":", " ", "1", ")", "\n", "2", ".", " ", "[", "D", "B", "]", " ", "q", "2",
       "\n", "3", ".", " ", "[", "U", "X", "]", " ", "q", "3", " ", "(", "u512a", "u5148",
       "u5ea6", ":", " ", "3", ")", "\n", "4", ".", " ", "[", "M", "L", "]", " ", "q", "4",
       " ", "(", "u512a", "u5148", "u5ea6", ":", " ", "2", ")" >>

ProseAnswer == << "s", "o", "r", "r", "y" >>

FreeTexts == { ThreeLineAnswer, TwoLineAnswer, FourLineAnswer, ProseAnswer, << >> }

\* Answers of the decomposition call: it raises; a parsed list of 0..4
\* sub-queries; no parsed object and a free text or no content.
DecompositionAnswers ==
    StructuredAnswers
    \cup { [raises |-> FALSE, parsed |-> None, content |-> Some(t)] : t \in FreeTexts }
    \cup { [raises |-> FALSE, parsed |-> None, content |-> None] }

IdleProvider ==
    NewProvider([AZURE_OPENAI_API_KEY |-> TRUE, AZURE_OPENAI_BASE_URL |-> TRUE],
                TRUE, TRUE, TRUE, FALSE, FALSE, 3, SmallThreshold)

\* No conduct_research runs while a component is called on its own.
PipelineOff ==
    /\ provider = IdleProvider
    /\ pc = "off"
    /\ prompt = << >>
    /\ sub_queries = << >>
    /\ futures = << >>
    /\ pending = {}
    /\ agent_results = << >>
    /\ exc = NoExc
    /\ result = NotReturned
    /\ calls = NoCalls
    /\ log = {}
    /\ synth = NoSynthesis

PipelineVars ==
    <<provider, pc, prompt, sub_queries, futures, pending, agent_results, exc, result,
      calls, log, synth>>

DecomposeCalls ==
    [fn : {"decompose_query", "decompose_query_auto_research"},
     file : PromptFiles, response : DecompositionAnswers,
     query : Queries, context : Contexts, ret : {None}]

InitDecompose ==
    /\ PipelineOff
    /\ call \in DecomposeCalls

\* supervisor.decompose_query(query, context) of src/research
CallDecompose ==
    /\ call.fn = "decompose_query"
    /\ call.ret = None
    /\ call' = [call EXCEPT !.ret = Some(decompose_query(call.file, call.response,
                                                         call.query, call.context))]
    /\ UNCHANGED PipelineVars

\* supervisor.decompose_query(query, context) of src/auto-research
CallDecomposeAutoResearch ==
    /\ call.fn = "decompose_query_auto_research"
    /\ call.ret = None
    /\ call' = [call EXCEPT !.ret = Some(decompose_query_auto_research(
                                             call.response, call.query, call.context))]
    /\ UNCHANGED PipelineVars

NextDecompose == CallDecompose \/ CallDecomposeAutoResearch

SpecDecompose == InitDecompose /\ [][NextDecompose]_vars

\* rendered contents reach up to MaxContentOver characters past
\* LongContentLength
MaxContentOver == 1

\* search contents reach up to MaxSourceOver characters past SourceContentLimit
MaxSourceOver == 1

EmptyContent == ResearchContent(<< >>, << >>, << >>, << >>)

\* A content whose rendering has n characters, for n of at least the headings.
ContentRendering(n) ==
    ResearchContent(Repeat(<< "w" >>, n - Len(RenderContent(EmptyContent))),
                    << >>, << >>, << >>)

ChatAnswers ==
    { ChatRaises, ChatParsed(None), ChatParsed(Some(SampleContent)) }
    \cup { ChatParsed(Some(ContentRendering(LongContentLength + k))) :
             k \in 0..MaxContentOver }

SearchAnswers ==
    { SearchRaises,
      [raises |-> FALSE, results |-> << >>],
      SearchFound,
      [raises |-> FALSE,
       results |-> << SampleSearchResult,
                      [title |-> << "N" >>, url |-> << "V" >>, content |-> None] >>] }
    \cup { [raises |-> FALSE,
            results |-> << [title |-> << "L" >>, url |-> << "W" >>,
                            content |-> Some(Repeat(<< "c" >>, SourceContentLimit + k))] >>] :
             k \in 0..MaxSourceOver }

AgentSubQueries == { SampleSubQuery(1), FallbackSubQueries(<< "c", "t", "x" >>)[2] }

AgentCalls ==
    [fn : {"conduct_specialized_research"},
     agent_id : {AgentId(1)},
     clients : { [search_client |-> TRUE, tavily |-> TRUE],
                 [search_client |-> FALSE, tavily |-> TRUE],
                 [search_client |-> FALSE, tavily |-> FALSE] },
     sub_query : AgentSubQueries,
     search : SearchAnswers, file : PromptFiles, chat : ChatAnswers,
     ret : {None}]

InitAgent ==
    /\ PipelineOff
    /\ call \in AgentCalls

\* agent.conduct_specialized_research(sub_query)
CallAgent ==
    /\ call.fn = "conduct_specialized_research"
    /\ call.ret = None
    /\ call' = [call EXCEPT !.ret = Some(conduct_specialized_research(
                                             call.agent_id, call.clients.search_client,
                                             call.clients.tavily, call.sub_query,
                                             call.search, call.file, call.chat))]
    /\ UNCHANGED PipelineVars

NextAgent == CallAgent

SpecAgent == InitAgent /\ [][NextAgent]_vars

\* The thresholds compress_context is called with: none of the context fits,
\* a small one, and one among the lengths of Contexts.
CompressThresholds == { 0, SmallThreshold, ContextLimit }

CompressCalls ==
    [fn : {"compress_context"}, file : PromptFiles, response : CompletionAnswers,
     context : Contexts, threshold : CompressThresholds, ret : {None}]

InitCompress ==
    /\ PipelineOff
    /\ call \in CompressCalls

\* compressor.compress_context(context, threshold)
CallCompress ==
    /\ call.fn = "compress_context"
    /\ call.ret = None
    /\ call' = [call EXCEPT !.ret = Some(compress_context(call.file, call.response,
                                                          call.context, call.threshold))]
    /\ UNCHANGED PipelineVars

NextCompress == CallCompress

SpecCompress == InitCompress /\ [][NextCompress]_vars

\* prompts reach up to MaxPromptOver characters past the threshold
MaxPromptOver == 2

\* CONTEXT_COMPRESSION_THRESHOLD: a small one, and one at which the truncated
\* prompt is longer than the decomposition context.
PrepareThresholds == { SmallThreshold, DecompositionContextLimit }

\* A prompt of at least threshold characters whose threshold-th character is
\* unlike its neighbours, and a one-character prompt.
PreparePrompts(threshold) ==
    { << "p" >> }
    \cup { Repeat(<< "a" >>, threshold - 1) \o << "b" >> \o Repeat(<< "c" >>, k) :
             k \in 0..MaxPromptOver }

\* conduct_research up to the decomposition (lines 472-487), on long prompts.
InitPrepare ==
    /\ \E threshold \in PrepareThresholds :
          /\ provider \in { NewProvider([AZURE_OPENAI_API_KEY |-> TRUE,
                                         AZURE_OPENAI_BASE_URL |-> TRUE],
                                        TRUE, ta, TRUE, ocr, FALSE,
                                        DefaultMaxSubAgents, threshold) :
                              ta \in BOOLEAN, ocr \in BOOLEAN }
          /\ prompt \in PreparePrompts(threshold)
    /\ pc = "idle"
    /\ sub_queries = << >>
    /\ futures = << >>
    /\ pending = {}
    /\ agent_results = << >>
    /\ exc = NoExc
    /\ result = NotReturned
    /\ calls = NoCalls
    /\ log = {}
    /\ synth = NoSynthesis
    /\ call = NoCall

NextPrepare == Enter \/ Compress \/ Decompose

SpecPrepare == InitPrepare /\ [][NextPrepare]_vars

\* _synthesize_agent_results is called with up to MaxSynthesisResults results
MaxSynthesisResults == 3

\* The AgentResults agents return: every outcome of an agent that returns.
AgentOutcomes ==
    { r.value :
        r \in { x \in { conduct_specialized_research(AgentId(1), TRUE, TRUE, q,
                                                     env.search, env.file, env.chat) :
                          q \in AgentSubQueries, env \in PipelineAgentEnvs } :
                ~x.raised } }

SynthesisInputs == UNION { [1..n -> AgentOutcomes] : n \in 0..MaxSynthesisResults }

SynthesisCalls ==
    [fn : {"_synthesize_agent_results"}, rs : SynthesisInputs, file : PromptFiles,
     response : SynthesisAnswers, ret : {None}]

InitSynthesis ==
    /\ PipelineOff
    /\ call \in SynthesisCalls

\* self._synthesize_agent_results(agent_results)
CallSynthesis ==
    /\ call.fn = "_synthesize_agent_results"
    /\ call.ret = None
    /\ call' = [call EXCEPT !.ret = Some(_synthesize_agent_results(
                                             call.rs, call.file, call.response))]
    /\ UNCHANGED PipelineVars

NextSynthesis == CallSynthesis

SpecSynthesis == InitSynthesis /\ [][NextSynthesis]_vars

(***************************************************************************)
(* ErrorHandler of src/auto-browser-control: calculate_delay and the       *)
(* wrapper retry_on_failure puts around a function.                        *)
(***************************************************************************)
\* max_retries of the handler and of the decorator range over 0..MaxRetries
MaxRetries == 3

\* ErrorHandler(max_retries, base_delay, max_delay)
ErrorHandler(max_retries, base_delay, max_delay) ==
    [max_retries |-> max_retries, base_delay |-> base_delay, max_delay |-> max_delay]

\* The defaults of __init__ (line 17).
DefaultBaseDelay == 1

DefaultMaxDelay == 60

calculate_delay_Uncapped(self, attempt) == self.base_delay * Pow2(attempt)

\* calculate_delay(attempt): exponential backoff, capped
calculate_delay(self, attempt) ==
    LET delay == self.base_delay * Pow2(attempt)
    IN  Min(delay, self.max_delay)

\* x or y for an optional int x: y when x is None or 0
OrElse(x, y) == IF x = None \/ x = Some(0) THEN y ELSE x[1]

\* What the wrapped function returns when it does not raise.
FuncValue == "Success"

\* A call of the wrapper made by retry_on_failure(max_retries, delay) of the
\* handler self, before its first statement.
RetryCall(self, max_retries, delay) ==
    [fn |-> "retry_on_failure", self |-> self, max_retries |-> max_retries,
     delay |-> delay, pos |-> "call", _max_retries |-> 0, _delay |-> 0, attempt |-> 0,
     func_calls |-> 0, failures |-> 0, last_exception |-> None, sleeps |-> << >>,
     warnings |-> 0, errors |-> 0, value |-> None, exc |-> None]

Handlers ==
    { ErrorHandler(m, b, x) : m \in 0..MaxRetries,
                              b \in { DefaultBaseDelay, 2 },
                              x \in { MaxRetries, DefaultMaxDelay } }

OptionalRetries == { None } \cup { Some(n) : n \in 0..MaxRetries }

OptionalDelays == { None, Some(0), Some(MaxRetries) }

InitRetry ==
    /\ PipelineOff
    /\ call \in { RetryCall(h, m, d) : h \in Handlers, m \in OptionalRetries,
                                       d \in OptionalDelays }

\* Lines 65-68: the wrapper is entered.
RetryEnter ==
    /\ call.fn = "retry_on_failure"
    /\ call.pos = "call"
    /\ call' = [call EXCEPT
                  !._max_retries = OrElse(call.max_retries, call.self.max_retries),
                  !._delay = OrElse(call.delay, call.self.base_delay),
                  !.pos = "loop"]
    /\ UNCHANGED PipelineVars

\* Lines 70-86: one iteration of the loop up to its return, its raise or its
\* sleep.  The function returns or raises an exception of the listed kinds;
\* the exception of the k-th call is named k.
RetryAttempt ==
    /\ call.fn = "retry_on_failure"
    /\ call.pos = "loop"
    /\ call.attempt <= call._max_retries
    /\ \E fails \in BOOLEAN :
          LET e == call.func_calls + 1
          IN  IF ~fails
              THEN call' = [call EXCEPT !.func_calls = @ + 1, !.pos = "returned",
                                        !.value = Some(FuncValue)]
              ELSE IF call.attempt < call._max_retries
              THEN call' = [call EXCEPT !.func_calls = @ + 1, !.failures = @ + 1,
                                        !.last_exception = Some(e),
                                        !.warnings = @ + 1, !.pos = "sleep"]
              ELSE call' = [call EXCEPT !.func_calls = @ + 1, !.failures = @ + 1,
                                        !.last_exception = Some(e),
                                        !.errors = @ + 1, !.pos = "raised",
                                        !.exc = Some(e)]
    /\ UNCHANGED PipelineVars

\* Lines 78 and 83: time.sleep(retry_delay), then the next iteration.
RetrySleep ==
    /\ call.fn = "retry_on_failure"
    /\ call.pos = "sleep"
    /\ LET retry_delay == IF call.delay = None
                          THEN calculate_delay(call.self, call.attempt)
                          ELSE call._delay
       IN  call' = [call EXCEPT !.sleeps = Append(@, retry_delay),
                                !.attempt = @ + 1, !.pos = "loop"]
    /\ UNCHANGED PipelineVars

NextRetry == RetryEnter \/ RetryAttempt \/ RetrySleep

SpecRetry == InitRetry /\ [][NextRetry]_vars

(***************************************************************************)
(* calculate_delay called for the attempts 0, 1, 2, ... of one handler.    *)
(***************************************************************************)
\* attempts range over 0..MaxAttempt
MaxAttempt == 7

DefaultMaxRetries == 3

DelayHandlers ==
    { ErrorHandler(DefaultMaxRetries, b, x) : b \in 0..3,
                                              x \in { 1, 3, 5, DefaultMaxDelay } }

\* delays[i] is what calculate_delay(i - 1) returned
InitDelay ==
    /\ PipelineOff
    /\ call \in { [fn |-> "calculate_delay", self |-> h, delays |-> << >>] :
                    h \in DelayHandlers }

CallDelay ==
    /\ call.fn = "calculate_delay"
    /\ Len(call.delays) <= MaxAttempt
    /\ call' = [call EXCEPT
                  !.delays = Append(@, calculate_delay(call.self, Len(call.delays)))]
    /\ UNCHANGED PipelineVars

NextDelay == CallDelay

SpecDelay == InitDelay /\ [][NextDelay]_vars

(***************************************************************************)
(* AzureOpenAIClient of src/shared/api_clients: generate_completion with   *)
(* its retry loop, continue_conversation and the conversation history.     *)
(***************************************************************************)
\* MAX_RETRIES of the client ranges over 0..MaxClientRetries
MaxClientRetries == 3

\* operations on one client in a behaviour
MaxClientCalls == 3

DefaultApiDelay == 2

\* AzureOpenAIClient(): the fields generate_completion uses (lines 34-36)
AzureOpenAIClient(max_retries, api_delay) ==
    [conversation_history |-> << >>, max_retries |-> max_retries, api_delay |-> api_delay]

Message(role, content) == [role |-> role, content |-> content]

\* reset_conversation (lines 162-165)
reset_conversation(self) == [self EXCEPT !.conversation_history = << >>]

\* add_system_message (lines 167-173)
add_system_message(self, system_message) ==
    [self EXCEPT !.conversation_history = Append(@, Message("system", system_message))]

\* The state of a client and of the generate_completion call it runs: pos is
\* "idle" between calls, "attempt" before an API call (line 93) and "backoff"
\* before the sleep of line 113.  sent is the 'messages' parameter of the last
\* API call, response the content of the response it got, before the history
\* at the entry of the call, outcome what the last call returned or raised.
ClientState(client) ==
    [fn |-> "AzureOpenAIClient", client |-> client, pos |-> "idle",
     req |-> [messages |-> << >>, maintain_history |-> FALSE],
     before |-> << >>, attempt |-> 0, api_calls |-> 0, failures |-> 0,
     sleeps |-> << >>, sent |-> << >>, response |-> None, outcome |-> None,
     ops |-> 0]

\* generate_completion(messages, maintain_history) up to its first API call
\* (lines 69-89); with max_retries <= 0 the loop is empty and None is returned
\* (line 117).
GenerateBegin(c, messages, maintain_history) ==
    [c EXCEPT !.client.conversation_history =
                  IF maintain_history THEN @ \o messages ELSE @,
              !.req = [messages |-> messages, maintain_history |-> maintain_history],
              !.before = c.client.conversation_history,
              !.attempt = 0, !.api_calls = 0, !.failures = 0,
              !.sleeps = << >>, !.sent = << >>, !.response = None,
              !.outcome = IF c.client.max_retries <= 0
                          THEN Some([raised |-> FALSE, value |-> None, exc |-> 0])
                          ELSE None,
              !.pos = IF c.client.max_retries <= 0 THEN "idle" ELSE "attempt"]

\* use_messages (lines 73-77)
UseMessages(c) ==
    IF c.req.maintain_history THEN c.client.conversation_history ELSE c.req.messages

\* What chat.completions.create can answer to the messages sent: it raises, or
\* the content of its first choice is None, or it is a reply to the last message.
ApiAnswers(messages) ==
    { [raises |-> TRUE, content |-> None],
      [raises |-> FALSE, content |-> None],
      [raises |-> FALSE,
       content |-> Some([reply_to |-> messages[Len(messages)].content])] }

\* Mutant: the last failure is followed by one more attempt.
AfterAttempt_OneMore(c, answer) ==
    IF ~answer.raises
    THEN [c EXCEPT !.api_calls = @ + 1, !.sent = UseMessages(c),
                   !.response = Some(answer.content),
                   !.client.conversation_history =
                       IF c.req.maintain_history /\ answer.content # None
                       THEN Append(@, Message("assistant", answer.content[1]))
                       ELSE @,
                   !.sleeps = IF c.client.api_delay > 0
                              THEN Append(@, [kind |-> "api_delay",
                                              secs |-> c.client.api_delay])
                              ELSE @,
                   !.outcome = Some([raised |-> FALSE, value |-> answer.content,
                                     exc |-> 0]),
                   !.pos = "idle"]
    ELSE IF c.attempt < c.client.max_retries
    THEN [c EXCEPT !.api_calls = @ + 1, !.sent = UseMessages(c),
                   !.failures = @ + 1, !.pos = "backoff"]
    ELSE [c EXCEPT !.api_calls = @ + 1, !.sent = UseMessages(c),
                   !.failures = @ + 1,
                   !.outcome = Some([raised |-> TRUE, value |-> None,
                                     exc |-> c.api_calls + 1]),
                   !.pos = "idle"]

\* One iteration of the loop of lines 89-115 up to its return, its raise or
\* its backoff sleep; the exception of the k-th API call is named k.
AfterAttempt(c, answer) ==
    IF ~answer.raises
    THEN [c EXCEPT !.api_calls = @ + 1, !.sent = UseMessages(c),
                   !.response = Some(answer.content),
                   !.client.conversation_history =
                       IF c.req.maintain_history /\ answer.content # None
                       THEN Append(@, Message("assistant", answer.content[1]))
                       ELSE @,
                   !.sleeps = IF c.client.api_delay > 0
                              THEN Append(@, [kind |-> "api_delay",
                                              secs |-> c.client.api_delay])
                              ELSE @,
                   !.outcome = Some([raised |-> FALSE, value |-> answer.content,
                                     exc |-> 0]),
                   !.pos = "idle"]
    ELSE IF c.attempt < c.client.max_retries - 1
    THEN [c EXCEPT !.api_calls = @ + 1, !.sent = UseMessages(c),
                   !.failures = @ + 1, !.pos = "backoff"]
    ELSE [c EXCEPT !.api_calls = @ + 1, !.sent = UseMessages(c),
                   !.failures = @ + 1,
                   !.outcome = Some([raised |-> TRUE, value |-> None,
                                     exc |-> c.api_calls + 1]),
                   !.pos = "idle"]

\* time.sleep(2 ** attempt) of line 113 and the next iteration
AfterBackoff(c) ==
    [c EXCEPT !.sleeps = Append(@, [kind |-> "backoff", secs |-> Pow2(c.attempt)]),
              !.attempt = @ + 1, !.pos = "attempt"]

Clients ==
    { AzureOpenAIClient(m, d) : m \in 0..MaxClientRetries, d \in { 0, DefaultApiDelay } }

InitClient ==
    /\ PipelineOff
    /\ call \in { ClientState(c) : c \in Clients }

\* generate_completion(messages) or continue_conversation(user_message) is
\* called with the next user message.
ClientCall ==
    /\ call.fn = "AzureOpenAIClient"
    /\ call.pos = "idle"
    /\ call.ops < MaxClientCalls
    /\ \E maintain_history \in BOOLEAN :
          call' = GenerateBegin([call EXCEPT !.ops = @ + 1],
                                << Message("user", [text |-> "user", no |-> call.ops + 1]) >>,
                                maintain_history)
    /\ UNCHANGED PipelineVars

ClientReset ==
    /\ call.fn = "AzureOpenAIClient"
    /\ call.pos = "idle"
    /\ call.ops < MaxClientCalls
    /\ call' = [call EXCEPT !.client = reset_conversation(@), !.ops = @ + 1]
    /\ UNCHANGED PipelineVars

ClientAddSystem ==
    /\ call.fn = "AzureOpenAIClient"
    /\ call.pos = "idle"
    /\ call.ops < MaxClientCalls
    /\ call' = [call EXCEPT
                  !.client = add_system_message(@, [text |-> "system", no |-> call.ops + 1]),
                  !.ops = @ + 1]
    /\ UNCHANGED PipelineVars

\* Lines 89-115: one API call and what follows it.
ApiAttempt ==
    /\ call.fn = "AzureOpenAIClient"
    /\ call.pos = "attempt"
    /\ \E answer \in ApiAnswers(UseMessages(call)) : call' = AfterAttempt(call, answer)
    /\ UNCHANGED PipelineVars

\* Line 113.
ApiBackoff ==
    /\ call.fn = "AzureOpenAIClient"
    /\ call.pos = "backoff"
    /\ call' = AfterBackoff(call)
    /\ UNCHANGED PipelineVars

NextClient == ClientCall \/ ClientReset \/ ClientAddSystem \/ ApiAttempt \/ ApiBackoff

SpecClient == InitClient /\ [][NextClient]_vars

(***************************************************************************)
(* RadioScriptGenerator of src/radio: generate_all_scripts run several     *)
(* times on one generator, whose client is the AzureOpenAIClient above.    *)
(***************************************************************************)
\* generate_all_scripts is run up to MaxRuns times
MaxRuns == 2

\* a run has 1..MaxChapters chapters (extract_chapters raises without any)
MaxChapters == 2

\* Mutant: the first chapter does not reset the conversation.
FirstChapterClient_NoReset(client, run) ==
    add_system_message(client, [text |-> "system", run |-> run])

\* The client after reset_conversation and add_system_message of the first
\* chapter (lines 174-175); run names the run whose texts the messages carry.
FirstChapterClient(client, run) ==
    add_system_message(reset_conversation(client), [text |-> "system", run |-> run])

\* user_message of chapter i of a run (lines 171 and 180): the template, the
\* report and the chapter for the first chapter, the fixed request afterwards.
UserMessage(run, i) ==
    [text |-> IF i = 1 THEN "first" ELSE "next", run |-> run, chapter |-> i]

\* The generator: run counts the runs started, chapters and i are the chapters
\* of the run and the chapter at hand, pos is "idle" between runs, "chapter"
\* before generate_script_for_chapter and "chat" during its
\* continue_conversation; resets and chats count the reset_conversation and
\* continue_conversation calls of the run, reset_after the chats made before
\* the last reset and discarded the length of the history it cleared; scripts
\* counts the scripts appended.
RadioState(client) ==
    [f \in DOMAIN ClientState(client) \cup {"radio"} |->
        IF f = "radio"
        THEN [run |-> 0, chapters |-> 0, i |-> 0, pos |-> "idle", resets |-> 0,
              chats |-> 0, reset_after |-> 0, discarded |-> 0, scripts |-> 0,
              raised |-> FALSE]
        ELSE ClientState(client)[f]]

InitRadio ==
    /\ PipelineOff
    /\ call \in { RadioState(c) : c \in Clients }

\* generate_all_scripts(chapters, research_report) is called (line 188).
RadioRun ==
    /\ call.fn = "AzureOpenAIClient"
    /\ "radio" \in DOMAIN call
    /\ call.radio.pos = "idle"
    /\ call.radio.run < MaxRuns
    /\ \E n \in 1..MaxChapters :
          call' = [call EXCEPT !.radio = [run |-> @.run + 1, chapters |-> n, i |-> 1,
                                          pos |-> "chapter", resets |-> 0, chats |-> 0,
                                          reset_after |-> 0, discarded |-> 0,
                                          scripts |-> 0, raised |-> FALSE]]
    /\ UNCHANGED PipelineVars

\* generate_script_for_chapter up to the API calls of its continue_conversation
\* (lines 167-180); load_prompt_template can raise an exception other than
\* FileNotFoundError, which ends the run.
RadioChapter ==
    /\ call.fn = "AzureOpenAIClient"
    /\ "radio" \in DOMAIN call
    /\ call.radio.pos = "chapter"
    /\ LET r == call.radio
           msg == << Message("user", UserMessage(r.run, r.i)) >>
       IN  IF r.i = 1
           THEN \E template_raises \in BOOLEAN :
                   IF template_raises
                   THEN call' = [call EXCEPT !.radio.pos = "idle", !.radio.raised = TRUE]
                   ELSE call' = GenerateBegin(
                                   [call EXCEPT
                                      !.client = FirstChapterClient(@, r.run),
                                      !.radio.resets = @ + 1,
                                      !.radio.reset_after = r.chats,
                                      !.radio.discarded =
                                          Len(call.client.conversation_history),
                                      !.radio.chats = @ + 1,
                                      !.radio.pos = "chat"],
                                   msg, TRUE)
           ELSE call' = GenerateBegin([call EXCEPT !.radio.chats = @ + 1,
                                                   !.radio.pos = "chat"],
                                      msg, TRUE)
    /\ UNCHANGED PipelineVars

\* continue_conversation has returned or raised: the script is appended and
\* the loop goes on (lines 195-204), or the exception ends the run (line 185).
RadioChapterEnd ==
    /\ call.fn = "AzureOpenAIClient"
    /\ "radio" \in DOMAIN call
    /\ call.radio.pos = "chat"
    /\ call.pos = "idle"
    /\ IF call.outcome[1].raised
       THEN call' = [call EXCEPT !.radio.pos = "idle", !.radio.raised = TRUE]
       ELSE call' = [call EXCEPT
                       !.radio.scripts = @ + 1,
                       !.radio.i = @ + 1,
                       !.radio.pos = IF call.radio.i = call.radio.chapters
                                     THEN "idle" ELSE "chapter"]
    /\ UNCHANGED PipelineVars

NextRadio == RadioRun \/ RadioChapter \/ ApiAttempt \/ ApiBackoff \/ RadioChapterEnd

SpecRadio == InitRadio /\ [][NextRadio]_vars

(***************************************************************************)
(* AutoResearchSystem.run of src/research/auto_research.py.                *)
(***************************************************************************)
\* "=== d ===\n", the line read_diary_content puts before the text of the
\* diary file d (line 118)
DiaryHeading == << "=", "=", "=", " ", "d", " ", "=", "=", "=", "\n" >>

\* read_diary_content(diary_files) for the files found (at most one, with
\* days_back = 1): each readable file adds a heading and its text, a file that
\* cannot be read is logged and skipped, and the whole is stripped.
read_diary_content(found, readable, text) ==
    LET content == IF found /\ readable
                   THEN << "\n", "\n" >> \o DiaryHeading \o text
                   ELSE << >>
    IN  Strip(content)

\* What run meets: whether yesterday's diary file exists, can be read and
\* what it holds; whether PROMPT_TEMPLATE_PATH is set and the file exists;
\* what provider.conduct_research and save_research_report do.
RunEnvs ==
    [found : BOOLEAN, readable : BOOLEAN,
     text : { << >>, << " ", "\n" >>, << "t" >> },
     template : { "exists", "missing", "unset" },
     research : { "result", "None", "raises" },
     save : { "written", "failed", "raises" }]

\* run() before its first statement; provider_calls, save_calls and reports
\* count the calls of provider.conduct_research and save_research_report and
\* the report files written.
RunState(env) ==
    [fn |-> "run", env |-> env, pos |-> "start", provider_calls |-> 0,
     save_calls |-> 0, reports |-> 0, raised |-> FALSE, log |-> {}]

InitRun ==
    /\ PipelineOff
    /\ call \in { RunState(env) : env \in RunEnvs }

\* Steps 1 to 4 of run (lines 289-307): where run goes on and what it logs.
\* os.path.exists(None) raises TypeError when PROMPT_TEMPLATE_PATH is unset;
\* the handler of line 322 logs it.
RunChecks(env) ==
    IF ~env.found
    THEN [pos |-> "done", log |-> {"warning: No diary files found"}]
    ELSE IF read_diary_content(env.found, env.readable, env.text) = << >>
    THEN [pos |-> "done", log |-> {"warning: No diary content found"}]
    ELSE IF env.template = "unset"
    THEN [pos |-> "done", log |-> {"error: Unexpected error in main process"}]
    ELSE IF env.template = "missing"
    THEN [pos |-> "done", log |-> {"error: Prompt template file missing"}]
    ELSE [pos |-> "research", log |-> {}]

RunStart ==
    /\ call.fn = "run"
    /\ call.pos = "start"
    /\ call' = [call EXCEPT !.pos = RunChecks(call.env).pos,
                            !.log = @ \cup RunChecks(call.env).log]
    /\ UNCHANGED PipelineVars

\* Step 5 (lines 309-313).
RunResearch ==
    /\ call.fn = "run"
    /\ call.pos = "research"
    /\ call' = [call EXCEPT
                  !.provider_calls = @ + 1,
                  !.pos = IF call.env.research = "result" THEN "save" ELSE "done",
                  !.log = @ \cup (IF call.env.research = "raises"
                                  THEN {"error: Unexpected error in main process"}
                                  ELSE IF call.env.research = "None"
                                  THEN {"error: Failed to get research result"}
                                  ELSE {})]
    /\ UNCHANGED PipelineVars

\* Step 6 (lines 315-320).
RunSave ==
    /\ call.fn = "run"
    /\ call.pos = "save"
    /\ call' = [call EXCEPT
                  !.save_calls = @ + 1,
                  !.reports = IF call.env.save = "written" THEN @ + 1 ELSE @,
                  !.pos = "done",
                  !.log = @ \cup (IF call.env.save = "raises"
                                  THEN {"error: Unexpected error in main process"}
                                  ELSE IF call.env.save = "failed"
                                  THEN {"error: Failed to save research report"}
                                  ELSE {"info: Auto research completed successfully"})]
    /\ UNCHANGED PipelineVars

NextRun == RunStart \/ RunResearch \/ RunSave

SpecRun == InitRun /\ [][NextRun]_vars

(***************************************************************************)
(* Properties of conduct_research, checked under Spec.                     *)
(***************************************************************************)
TimedOut == exc.type = "TimeoutError"

AgentsRunning == {i \in DOMAIN futures : futures[i].state = "running"}

\* C1: whenever no batch timeout occurs, the number of AgentResults collected
\* and reported as agent_results equals the number of sub-queries
\* decompose_query returned, for every MAX_SUB_AGENTS and however many agents
\* failed; no sub-query is dropped.
C1_ResultCountEqualsSubQueries ==
    /\ (pc = "synthesize" => Len(agent_results) = Len(sub_queries))
    /\ (pc = "done" /\ result.kind = "dict" => result.agent_results = Len(sub_queries))

\* C2: if the batch has not fully completed when the timeout expires,
\* conduct_research returns None and never a result built from the agents that
\* did finish; synthesis is not run on them.
C2_TimeoutIsAllOrNothing ==
    TimedOut => /\ result.kind # "dict"
                /\ (pc = "done" => result = ReturnedNone)
                /\ pc \in {"pool_exit", "done"}

\* C2 witness: the timeout struck with two of three agents already collected,
\* and None was returned.
C2_Witness ==
    /\ pc = "done"
    /\ TimedOut
    /\ Len(futures) = 3
    /\ Len(agent_results) = 2
    /\ result = ReturnedNone

\* C3: when the timeout expires while an agent is still running,
\* conduct_research returns None without waiting for the running agents, and
\* what such an agent produces later appears in no returned value.
C3_ReturnsWithoutWaiting ==
    /\ (pc = "pool_exit" /\ TimedOut => ENABLED PoolExit)
    /\ (pc = "done" /\ TimedOut => result = ReturnedNone)

\* C4: _synthesize_agent_results is invoked only after every submitted agent
\* task has completed, no result is read by it while an agent of the batch
\* runs, and after a batch timeout it is not invoked at all.
C4_SynthesisBarrier ==
    /\ (pc = "synthesize" => AgentsRunning = {})
    /\ (synth.invoked => synth.unfinished = {} /\ AgentsRunning = {})
    /\ (TimedOut => ~synth.invoked /\ pc # "synthesize")

\* C4 witness: synthesis ran on a batch of three agents, all finished.
C4_Witness ==
    /\ synth.invoked
    /\ Len(futures) = 3
    /\ Len(synth.input) = 3
    /\ AgentsRunning = {}

\* C5: conduct_research never lets an exception reach its caller: whatever a
\* collaborator does, it ends by returning a result dictionary or None.
C5_FacadeNeverThrows ==
    /\ result.kind \in {"pending", "None", "dict"}
    /\ (pc = "done" <=> result.kind \in {"None", "dict"})
    /\ (pc = "done" /\ exc # NoExc => result = ReturnedNone)

\* C5 witness: an exception other than the timeout was raised inside the
\* pipeline and the caller got None.
C5_Witness ==
    /\ pc = "done"
    /\ exc.type \in {"KeyError", "ValueError"}
    /\ result = ReturnedNone

\* C6: with AZURE_OPENAI_API_KEY or AZURE_OPENAI_BASE_URL missing, or without a
\* chat client, conduct_research returns None at once: it never enters the
\* pipeline and makes no compression, decomposition, search, agent or
\* synthesis call.
C6_ConfigFailFast ==
    (\/ ~provider.config.AZURE_OPENAI_API_KEY
     \/ ~provider.config.AZURE_OPENAI_BASE_URL
     \/ ~provider.openai_client)
    => /\ pc \in {"idle", "done"}
       /\ (pc = "done" => result = ReturnedNone)
       /\ calls = NoCalls
       /\ "info: Starting LangChain multi-agent research" \notin log
       /\ "error: LangChain research failed" \notin log

\* C6 witness: the configuration is complete but the client could not be
\* created, and None was returned.
C6_Witness ==
    /\ pc = "done"
    /\ provider.config.AZURE_OPENAI_API_KEY
    /\ provider.config.AZURE_OPENAI_BASE_URL
    /\ provider.OPENAI_AVAILABLE
    /\ ~provider.openai_client
    /\ result = ReturnedNone

SynthesisFailed == "error: Synthesis failed" \in log

\* One section of the fallback text: "## {domain}bun'ya no bunseki", a blank
\* line, the rendered content and a blank line.
FallbackSectionOf(r) ==
    << "#", "#", " " >> \o r.domain \o FallbackHeadingEnd
    \o RenderContent(r.content) \o << "\n", "\n" >>

\* C15: when the synthesis LLM call raises, _synthesize_agent_results returns
\* a text holding, for every input AgentResult and in input order, one heading
\* '## {domain}bun'ya no bunseki' followed by the full rendered content of that
\* result, none left out or cut; and conduct_research still returns a result.
C15_SynthesisFallbackComplete ==
    (pc = "done" /\ SynthesisFailed)
    => /\ exc = NoExc
       /\ result.kind = "dict"
       /\ result.agent_results = Len(synth.input)
       /\ result.content
            = PyStr(ReportTitle
                    \o Concat([i \in 1..Len(synth.input) |->
                                  FallbackSectionOf(synth.input[i])]))

\* C15 witness: the synthesis call raised on three results, one of them an
\* agent failure, and the result carries the three sections.
C15_Witness ==
    /\ pc = "done"
    /\ SynthesisFailed
    /\ Len(synth.input) = 3
    /\ \E i \in 1..3 : synth.input[i].confidence_score = FailureConfidence
    /\ \E i \in 1..3 : synth.input[i].confidence_score # FailureConfidence
    /\ result.kind = "dict"
    /\ Contains(result.content.str, FallbackSectionOf(synth.input[3]))

\* Scenario B: the configuration is valid, MAX_SUB_AGENTS has its default, and
\* every chat-completion call of the run raised: the decomposition, each of
\* the three agents and the synthesis; nothing else failed.
ScenarioB ==
    /\ pc = "done"
    /\ ~FailFast(provider)
    /\ provider.max_sub_agents = DefaultMaxSubAgents
    /\ exc = NoExc
    /\ "error: Error in query decomposition" \in log
    /\ Len(futures) = 3
    /\ \A i \in 1..3 : /\ futures[i].state = "returned"
                       /\ futures[i].result.confidence_score = FailureConfidence
    /\ SynthesisFailed

\* C16: with a chat client that always raises, a valid configuration and the
\* default MAX_SUB_AGENTS, conduct_research returns a result with
\* agent_results = 3, every agent's current_analysis carrying an error message,
\* the content being the fallback concatenation, and confidence_score equal
\* to 0.1.
C16_AlwaysFailingChat ==
    ScenarioB
    => /\ result.kind = "dict"
       /\ result.agent_results = 3
       /\ \A i \in 1..3 :
            Contains(synth.input[i].content.current_analysis, AgentErrorPrefix)
       /\ result.content
            = PyStr(ReportTitle
                    \o Concat([i \in 1..3 |-> FallbackSectionOf(synth.input[i])]))
       /\ result.confidence_score = FailureConfidence

\* Every score an agent can return: the failure score and the scores of
\* lines 331-347 with and without search results and long content.
AllScores ==
    { FailureConfidence }
    \cup { ConfidenceScore(sr, Repeat(<< "w" >>, n)) :
             sr \in { << >>, << SampleSearchResult >> },
             n \in { 0, LongContentLength + 1 } }

\* C19: in every non-null result of conduct_research 'search_results' is
\* exactly the concatenation of the collected agents' sources, 'agent_results'
\* is the number of collected AgentResults, and 'confidence_score' is the mean
\* of their confidence scores (their sum divided by their number), which lies
\* in [0, 1] - for the results of the run and for every combination of up to
\* three possible scores.
C19_ResultAggregation ==
    /\ (pc = "done" /\ result.kind = "dict")
       => /\ result.search_results
               = Concat([i \in 1..Len(agent_results) |-> agent_results[i].sources])
          /\ result.agent_results = Len(agent_results)
          /\ result.confidence_score
               = (IF Len(agent_results) = 0 THEN FloatZero
                  ELSE FloatDivInt(SumConfidence(agent_results), Len(agent_results)))
          /\ FloatLeq(FloatZero, result.confidence_score)
          /\ FloatLeq(result.confidence_score, ConfidenceOne)
    /\ pc = "idle"
       => \A n \in 1..3 : \A f \in [1..n -> AllScores] :
             LET mean == MeanConfidence([i \in 1..n |-> [confidence_score |-> f[i]]])
             IN  FloatLeq(FloatZero, mean) /\ FloatLeq(mean, ConfidenceOne)

\* C19 witness: three agents were collected, one failed and one succeeded with
\* sources, and the result reports the three with the sources found.
C19_Witness ==
    /\ pc = "done"
    /\ result.kind = "dict"
    /\ result.agent_results = 3
    /\ Len(agent_results) = 3
    /\ \E i \in 1..3 : agent_results[i].confidence_score = FailureConfidence
    /\ \E i \in 1..3 : agent_results[i].sources # << >>
    /\ result.search_results # << >>
    /\ result.confidence_score # FailureConfidence

(***************************************************************************)
(* Properties of ResearchSupervisor.decompose_query, checked under         *)
(* SpecDecompose.                                                          *)
(***************************************************************************)
DecomposeDone == call.fn = "decompose_query" /\ call.ret # None

\* C7: for any non-empty query and context, decompose_query returns a list of
\* 1 to 3 SubQuery items and never raises, on every path, the failure to load
\* or format the prompt template included.
C7_DecompositionTotal ==
    DecomposeDone => /\ ~call.ret[1].raised
                     /\ Len(call.ret[1].value) \in 1..3

LlmFailedOrUnparseable ==
    \/ call.response.raises
    \/ /\ call.response.parsed = None
       /\ call.response.content \in {None, Some(ProseAnswer), Some(<< >>)}

\* C8: whenever the decomposition LLM call fails or returns unparseable text,
\* decompose_query (of either version) returns exactly 3 SubQuery items with
\* domains gijutsu-doukou, jissou-shuhou, shourai-tenbou in this order and
\* priorities 1, 2, 2, each carrying exactly the first 500 characters of the
\* context argument, whatever the query.
C8_FallbackDeterminism ==
    (/\ call.fn \in {"decompose_query", "decompose_query_auto_research"}
     /\ call.ret # None
     /\ call.ret[1].llm = 1
     /\ LlmFailedOrUnparseable)
    => /\ ~call.ret[1].raised
       /\ Len(call.ret[1].value) = 3
       /\ [i \in 1..3 |-> call.ret[1].value[i].domain]
            = << DomainTech, DomainImpl, DomainFuture >>
       /\ [i \in 1..3 |-> call.ret[1].value[i].priority] = << 1, 2, 2 >>
       /\ [i \in 1..3 |-> call.ret[1].value[i].query]
            = << FallbackQuery1, FallbackQuery2, FallbackQuery3 >>
       /\ \A i \in 1..3 :
            call.ret[1].value[i].context
              = [k \in 1..Min(ContextLimit, Len(call.context)) |-> call.context[k]]

\* C8 witness: the LLM call raised on a context longer than 500 characters and
\* the three fixed sub-queries came back with the context cut.
C8_Witness ==
    /\ DecomposeDone
    /\ call.response.raises
    /\ call.ret[1].llm = 1
    /\ Len(call.context) > ContextLimit
    /\ Len(call.ret[1].value) = 3
    /\ Len(call.ret[1].value[3].context) = ContextLimit

\* C9: when the structured result is unavailable or empty and the raw text has
\* at least 3 numbered lines 'N. [domain] query (yuusendo: p)', decompose_query
\* returns the first 3 sub-queries parsed from those lines; the fixed fallback
\* set is returned only when fewer than 3 are recovered or an exception occurs.
C9_FreeTextPath ==
    (/\ DecomposeDone
     /\ ~call.ret[1].raised
     /\ ~call.response.raises
     /\ call.response.parsed = None
     /\ call.response.content = Some(ThreeLineAnswer))
    => /\ Len(call.ret[1].value) = 3
       /\ [i \in 1..3 |-> call.ret[1].value[i].domain]
            = << << "A", "I" >>, << "D", "B" >>, << "U", "X" >> >>
       /\ [i \in 1..3 |-> call.ret[1].value[i].query]
            = << << "q", "1" >>, << "q", "2" >>, << "q", "3" >> >>
       /\ [i \in 1..3 |-> call.ret[1].value[i].priority] = << 1, 2, 3 >>

(***************************************************************************)
(* Properties of ResearchAgent.conduct_specialized_research, checked under *)
(* SpecAgent.                                                              *)
(***************************************************************************)
\* C10: for any SubQuery, conduct_specialized_research returns an AgentResult
\* and never raises, with a confidence_score in [0, 1], also when the search
\* client raises, the chat client raises, both raise, or building the
\* research prompt fails.
C10_AgentTotal ==
    (call.fn = "conduct_specialized_research" /\ call.ret # None)
    => /\ ~call.ret[1].raised
       /\ FloatLeq(FloatZero, call.ret[1].value.confidence_score)
       /\ FloatLeq(call.ret[1].value.confidence_score, ConfidenceOne)

AgentDone == call.fn = "conduct_specialized_research" /\ call.ret # None

AgentSearched == call.clients.search_client /\ call.clients.tavily

\* Building the research prompt fails: a search result without content
\* (line 276) or a template str.format rejects (line 297).
PromptBuildingFails ==
    \/ /\ AgentSearched
       /\ ~call.search.raises
       /\ \E i \in DOMAIN call.search.results : call.search.results[i].content = None
    \/ ~_load_prompt_template(call.file).formattable

\* C11: on any exception during prompt building, the chat call or the
\* confidence computation, the agent returns an AgentResult whose
\* current_analysis contains the error message, whose other three content
\* fields are empty, whose sources are empty even if the search had found
\* results, whose confidence_score is 0.1, and whose agent_id, query and domain
\* are those of the agent and the sub-query.
C11_AgentFailureShape ==
    (AgentDone /\ (PromptBuildingFails \/ call.chat.raises))
    => /\ ~call.ret[1].raised
       /\ call.ret[1].value.content.key_findings = << >>
       /\ call.ret[1].value.content.implementation_insights = << >>
       /\ call.ret[1].value.content.future_prospects = << >>
       /\ (call.chat.raises /\ ~PromptBuildingFails
             => Contains(call.ret[1].value.content.current_analysis, call.chat.msg))
       /\ call.ret[1].value.sources = << >>
       /\ call.ret[1].value.confidence_score = FailureConfidence
       /\ call.ret[1].value.agent_id = call.agent_id
       /\ call.ret[1].value.query = call.sub_query.query
       /\ call.ret[1].value.domain = call.sub_query.domain

\* C12: a non-failed agent's confidence_score is min(1.0, 0.7 + (0.2 if the
\* search found results) + (0.1 if the rendered content is longer than 1000
\* characters)), so the only values over all runs are 0.1, 0.7, 0.8, 0.9 and
\* 1.0; and of two otherwise identical runs the one with search results, or
\* with the longer content, never has the lower score.
C12_ConfidenceValues ==
    /\ (AgentDone /\ ~call.ret[1].raised)
       => call.ret[1].value.confidence_score
            \in { Float(6553, 629145, 629146),     \* 0.1
                  Float(45875, 209715, 209712),   \* 0.7
                  Float(52428, 838860, 838864),   \* 0.8
                  Float(58982, 419430, 419432),   \* 0.9
                  Float(65536, 0, 0) }             \* 1.0
    /\ (AgentDone /\ ~call.ret[1].raised /\ ~call.chat.raises)
       => \A results \in { << >>, << SampleSearchResult >> } :
            \A n \in { 0, LongContentLength, LongContentLength + 1 } :
               /\ FloatLeq(ConfidenceScore(<< >>, Repeat(<< "w" >>, n)),
                           ConfidenceScore(results, Repeat(<< "w" >>, n)))
               /\ FloatLeq(ConfidenceScore(results, Repeat(<< "w" >>, n)),
                           ConfidenceScore(results, Repeat(<< "w" >>, n + 1)))

\* C13: if the search client is absent, or its search call raises, the agent
\* goes on with no search results and no sources and still makes the chat
\* call; a search failure alone never produces a failure AgentResult: the
\* outcome is that of the same call made without a search client.
C13_SearchBestEffort ==
    (AgentDone /\ (~AgentSearched \/ call.search.raises))
    => /\ (~PromptBuildingFails
             => /\ ~call.ret[1].raised
                /\ call.ret[1].llm = 1
                /\ call.ret[1].value.sources = << >>)
       /\ (~PromptBuildingFails /\ ~call.chat.raises
             => /\ call.ret[1].value.confidence_score # FailureConfidence
                /\ FloatLeq(BaseConfidence, call.ret[1].value.confidence_score)
                /\ ~Contains(call.ret[1].value.content.current_analysis, AgentErrorPrefix))
       /\ LET alone == conduct_specialized_research(
                           call.agent_id, FALSE, FALSE, call.sub_query,
                           [raises |-> FALSE, results |-> << >>], call.file, call.chat)
          IN  /\ call.ret[1].raised = alone.raised
              /\ call.ret[1].value = alone.value
              /\ call.ret[1].exc = alone.exc
              /\ call.ret[1].llm = alone.llm

\* C13 witness: the search call raised, the chat call was made and answered,
\* and the result is an ordinary one with the base score and no sources.
C13_Witness ==
    /\ AgentDone
    /\ AgentSearched
    /\ call.search.raises
    /\ ~call.chat.raises
    /\ ~call.ret[1].raised
    /\ call.ret[1].llm = 1
    /\ call.ret[1].search = 1
    /\ call.ret[1].value.sources = << >>
    /\ call.ret[1].value.confidence_score = BaseConfidence

(***************************************************************************)
(* Properties of LangChainProvider._synthesize_agent_results, checked      *)
(* under SpecSynthesis.                                                    *)
(***************************************************************************)
SynthesisDone == call.fn = "_synthesize_agent_results" /\ call.ret # None

\* C14: _synthesize_agent_results([r]) returns the rendered text of r.content,
\* the four-section string, and makes no LLM call; the synthesis LLM call is
\* made if and only if there are at least 2 agent results; an empty list gives
\* the fixed synthesis-failed message.
C14_SingleResultShortcut ==
    SynthesisDone
    => /\ (Len(call.rs) = 1
             => /\ call.ret[1].value = PyStr(RenderContent(call.rs[1].content))
                /\ call.ret[1].llm = 0)
       /\ (call.ret[1].llm = 1 <=> Len(call.rs) >= 2)
       /\ (Len(call.rs) = 0 => call.ret[1].value = PyStr(SynthesisFailedText))

(***************************************************************************)
(* Properties of the compression and decomposition steps of                *)
(* conduct_research, checked under SpecPrepare.                            *)
(***************************************************************************)
CompressionFailed == "error: Error in context compression" \in log

\* C17: when the prompt is longer than CONTEXT_COMPRESSION_THRESHOLD and the
\* compression LLM call fails, the prompt handed to decompose_query is exactly
\* the first threshold characters of the original followed by the truncation
\* marker, of length threshold + marker length, and not the original; and the
\* decomposition context is the first 1000 characters of the prompt handed over.
C17_CompressionFailurePath ==
    /\ (CompressionFailed /\ call.fn = "compress_context")
       => /\ pc = "decompose"
          /\ Len(call.context) > call.threshold
          /\ prompt = [i \in 1..call.threshold |-> call.context[i]] \o TruncationMarker
          /\ Len(prompt) = call.threshold + Len(TruncationMarker)
          /\ prompt # call.context
    /\ call.fn = "decompose_query"
       => /\ call.query = prompt
          /\ call.context = [i \in 1..Min(1000, Len(prompt)) |-> prompt[i]]
          /\ (CompressionFailed
                => /\ Len(call.query)
                        = provider.context_compression_threshold + Len(TruncationMarker)
                   /\ LastN(call.query, Len(TruncationMarker)) = TruncationMarker
                   /\ call.query[provider.context_compression_threshold] = "b")

\* C17 witness: compression failed on a prompt longer than a threshold of 1000,
\* and decompose_query got the truncated prompt, longer than 1000 characters,
\* with its first 1000 characters as context.
C17_Witness ==
    /\ CompressionFailed
    /\ call.fn = "decompose_query"
    /\ provider.context_compression_threshold = DecompositionContextLimit
    /\ Len(call.query) > DecompositionContextLimit
    /\ Len(call.context) = DecompositionContextLimit
    /\ call.context[DecompositionContextLimit] = "b"

(***************************************************************************)
(* Properties of ContextCompressor.compress_context, checked under         *)
(* SpecCompress.                                                           *)
(***************************************************************************)
CompressDone == call.fn = "compress_context" /\ call.ret # None

\* C18: compress_context(context, threshold) returns context unchanged and
\* makes no LLM call whenever len(context) <= threshold; for longer input it
\* returns the LLM's summary or the truncation fallback; and it never raises,
\* on any path, prompt-template loading or formatting failure and an LLM
\* answer without content included.
C18_CompressorTotal ==
    CompressDone
    => /\ ~call.ret[1].raised
       /\ (Len(call.context) <= call.threshold
             => call.ret[1].value = call.context /\ call.ret[1].llm = 0)
       /\ (Len(call.context) > call.threshold
             => \/ /\ ~call.response.raises
                   /\ call.response.content # None
                   /\ call.ret[1].value = call.response.content[1]
                \/ call.ret[1].value
                     = [i \in 1..call.threshold |-> call.context[i]] \o TruncationMarker)

(***************************************************************************)
(* Properties of ErrorHandler.retry_on_failure, checked under SpecRetry.   *)
(***************************************************************************)
RetryEnded == call.fn = "retry_on_failure" /\ call.pos \in {"returned", "raised"}

\* C20: retry_on_failure(max_retries=n), for every n >= 0: the wrapped
\* function is called at most n + 1 times; if it fails k <= n times and then
\* succeeds it is called exactly k + 1 times and its value is returned; if all
\* n + 1 attempts fail the last exception is re-raised; and a sleep occurs
\* between attempts but not after the final one.
C20_RetryOnFailure ==
    (call.fn = "retry_on_failure" /\ call.max_retries # None)
    => LET n == call.max_retries[1]
       IN  /\ call.func_calls <= n + 1
           /\ (call.pos = "returned"
                 => /\ call.failures <= n
                    /\ call.func_calls = call.failures + 1
                    /\ call.value = Some(FuncValue))
           /\ (call.pos = "raised"
                 => /\ call.func_calls = n + 1
                    /\ call.failures = n + 1
                    /\ call.exc = Some(n + 1))
           /\ (RetryEnded => Len(call.sleeps) = call.func_calls - 1)
           /\ (call.pos = "sleep" => call.func_calls <= n)

(***************************************************************************)
(* Properties of ErrorHandler.calculate_delay, checked under SpecDelay.    *)
(***************************************************************************)
\* 2^k by repeated doubling, independent of the model of calculate_delay
RECURSIVE TwoTo(_)
TwoTo(k) == IF k = 0 THEN 1 ELSE 2 * TwoTo(k - 1)

\* C21: calculate_delay(attempt) is min(base_delay * 2^attempt, max_delay) for
\* every attempt >= 0 (1, 2, 4 for attempts 0, 1, 2 with the defaults), is
\* non-decreasing in attempt and never exceeds max_delay.
C21_CalculateDelay ==
    call.fn = "calculate_delay"
    => LET self == call.self
           d == call.delays
       IN  /\ \A i \in 1..Len(d) :
                 LET raw == self.base_delay * TwoTo(i - 1)
                 IN  /\ d[i] = IF raw <= self.max_delay THEN raw ELSE self.max_delay
                     /\ d[i] <= self.max_delay
           /\ \A i \in 1..Len(d) : \A j \in i..Len(d) : d[i] <= d[j]
           /\ (self.base_delay = DefaultBaseDelay /\ self.max_delay = DefaultMaxDelay
                 /\ Len(d) >= 3)
                 => (d[1] = 1 /\ d[2] = 2 /\ d[3] = 4)

\* The default handler has been asked for attempts 0..MaxAttempt, so that the
\* cap at max_delay has been applied.
C21_Witness ==
    /\ call.fn = "calculate_delay"
    /\ call.self.base_delay = DefaultBaseDelay
    /\ call.self.max_delay = DefaultMaxDelay
    /\ Len(call.delays) = MaxAttempt + 1
    /\ call.delays[MaxAttempt + 1] = DefaultMaxDelay
    /\ call.delays[3] = 4

(***************************************************************************)
(* Further properties of _synthesize_agent_results, checked under          *)
(* SpecSynthesis.                                                          *)
(***************************************************************************)
\* The structured synthesis call was made and gave no FinalReport.
NoFinalReport ==
    /\ Len(call.rs) >= 2
    /\ call.ret[1].llm = 1
    /\ (call.response.raises \/ call.response.parsed = None)

\* C22: for two or more agent results, whenever structured synthesis gives no
\* FinalReport (the call raises, or it returns without a parsed report), the
\* text returned by _synthesize_agent_results contains the rendered content of
\* every AgentResult.
C22_SynthesisNeverDrops ==
    (SynthesisDone /\ NoFinalReport)
    => /\ ~call.ret[1].raised
       /\ \A i \in 1..Len(call.rs) :
             Contains(call.ret[1].value.str, RenderContent(call.rs[i].content))

(***************************************************************************)
(* Further properties of conduct_specialized_research, checked under       *)
(* SpecAgent.                                                              *)
(***************************************************************************)
\* The chat call was made and returned without a parsed ResearchContent.
ChatUnparsed ==
    /\ call.ret[1].llm = 1
    /\ ~call.chat.raises
    /\ call.chat.parsed = None

\* The results the search call handed to the agent.
SearchGave == IF AgentSearched /\ ~call.search.raises THEN call.search.results ELSE << >>

\* C23: when the agent's chat call returns without a parsed ResearchContent,
\* the agent returns an AgentResult whose current_analysis is the fixed
\* parse-failure text and whose other three fields are empty, keeps the
\* sources from search, and computes confidence by the normal formula, not 0.1.
C23_DegradedAgentContent ==
    (AgentDone /\ ChatUnparsed)
    => /\ ~call.ret[1].raised
       /\ call.ret[1].value.content.current_analysis = ParseFailedText
       /\ call.ret[1].value.content.key_findings = << >>
       /\ call.ret[1].value.content.implementation_insights = << >>
       /\ call.ret[1].value.content.future_prospects = << >>
       /\ Len(call.ret[1].value.sources) = Len(SearchGave)
       /\ \A i \in 1..Len(SearchGave) :
             /\ call.ret[1].value.sources[i].title = SearchGave[i].title
             /\ call.ret[1].value.sources[i].url = SearchGave[i].url
       /\ call.ret[1].value.confidence_score
            = (IF SearchGave # << >> THEN FloatAdd(BaseConfidence, SearchBonus)
               ELSE BaseConfidence)
       /\ call.ret[1].value.confidence_score # FailureConfidence
       /\ "error: Agent research failed" \notin call.ret[1].log

\* C23 witness: search found a source, the chat call returned unparsed, and the
\* degraded result keeps the source with the score of a searched run.
C23_Witness ==
    /\ AgentDone
    /\ ChatUnparsed
    /\ ~call.ret[1].raised
    /\ Len(call.ret[1].value.sources) >= 1
    /\ call.ret[1].value.content.current_analysis = ParseFailedText
    /\ call.ret[1].value.confidence_score = FloatAdd(BaseConfidence, SearchBonus)

ConfigError == FailFast(provider)

\* C25: every return of conduct_research is None or a result with
\* agent_results >= 1; a result with zero agent results (the fixed
\* synthesis-failed content and confidence_score 0.0) is unreachable; and None
\* is returned only for a configuration error or a batch timeout.
C25_TwoTerminalOutcomes ==
    pc = "done"
    => /\ \/ result = ReturnedNone
          \/ (result.kind = "dict" /\ result.agent_results >= 1)
       /\ ~(/\ result.kind = "dict"
            /\ result.content = PyStr(SynthesisFailedText)
            /\ result.confidence_score = FloatZero)
       /\ (result = ReturnedNone => ConfigError \/ TimedOut)

\* The orders in which n collected results can have completed.
Orders(n) == { p \in [1..n -> 1..n] : \A i, j \in 1..n : p[i] = p[j] => i = j }

\* The futures as_completed has yielded with a result.
Yielded == { i \in DOMAIN futures : i \notin pending /\ futures[i].state = "returned" }

\* C26: each dispatched sub-query is handed to exactly one ResearchAgent, the
\* agents have pairwise distinct ids agent_1..agent_n, every agent works on its
\* own sub-query only, agent_results holds exactly the results the coordinating
\* thread collected; and the AgentResults as a multiset, their count and the
\* mean confidence are the same for every completion order of the agents.
C26_AgentIsolation ==
    /\ \A i \in DOMAIN futures :
          /\ futures[i].sub_query = sub_queries[i]
          /\ (futures[i].state = "returned"
                => /\ futures[i].result.agent_id = AgentId(i)
                   /\ futures[i].result.query = sub_queries[i].query
                   /\ futures[i].result.domain = sub_queries[i].domain)
    /\ (futures # << >> /\ pc \in {"collect", "pool_exit", "synthesize", "done"})
          => /\ Len(agent_results) = Cardinality(Yielded)
             /\ \A i \in Yielded :
                   Cardinality({ j \in DOMAIN agent_results :
                                   agent_results[j] = futures[i].result }) = 1
    /\ (pc = "done" /\ result.kind = "dict")
          => \A p \in Orders(Len(agent_results)) :
                LET other == [j \in 1..Len(agent_results) |-> agent_results[p[j]]]
                IN  /\ Len(other) = result.agent_results
                    /\ MeanConfidence(other) = result.confidence_score

(***************************************************************************)
(* Properties of AzureOpenAIClient, checked under SpecClient.              *)
(***************************************************************************)
ClientEnded == call.fn = "AzureOpenAIClient" /\ call.pos = "idle" /\ call.outcome # None

BackoffSleeps == { i \in DOMAIN call.sleeps : call.sleeps[i].kind = "backoff" }

\* C27: generate_completion with max_retries = m >= 1 calls the chat endpoint
\* at most m times; it returns the content of the first successful call and
\* makes no further call; if all m attempts fail it raises the last exception
\* after exactly m attempts, sleeping between attempts but not after the last
\* failure.
C27_CompletionRetries ==
    (call.fn = "AzureOpenAIClient" /\ call.client.max_retries >= 1)
    => LET m == call.client.max_retries
       IN  /\ call.api_calls <= m
           /\ call.failures <= call.api_calls
           /\ (call.pos = "backoff" => call.api_calls < m)
           /\ (ClientEnded /\ ~call.outcome[1].raised
                 => /\ call.api_calls = call.failures + 1
                    /\ call.response = Some(call.outcome[1].value)
                    /\ Cardinality(BackoffSleeps) = call.failures)
           /\ (ClientEnded /\ call.outcome[1].raised
                 => /\ call.api_calls = m
                    /\ call.failures = m
                    /\ call.outcome[1].exc = m
                    /\ Cardinality(BackoffSleeps) = m - 1
                    /\ \A i \in DOMAIN call.sleeps : call.sleeps[i].kind = "backoff")

\* C27 witnesses: three attempts failed and the third exception was raised
\* after two sleeps.
C27_Witness ==
    /\ ClientEnded
    /\ call.client.max_retries = 3
    /\ call.outcome[1].raised
    /\ call.outcome[1].exc = 3
    /\ call.api_calls = 3
    /\ Len(call.sleeps) = 2

\* In the history every user message is followed by an assistant reply.
EveryUserAnswered ==
    LET h == call.client.conversation_history
    IN  \A i \in DOMAIN h :
           h[i].role = "user" => (i < Len(h) /\ h[i + 1].role = "assistant")

\* C28: if continue_conversation (generate_completion with maintain_history)
\* fails because every attempt raised, conversation_history afterwards equals
\* what it was before the call, so that after any sequence of calls every user
\* message in the history is followed by its assistant reply.
C28_HistoryUnchangedOnError ==
    /\ (ClientEnded /\ call.req.maintain_history /\ call.outcome[1].raised)
          => call.client.conversation_history = call.before
    /\ (call.fn = "AzureOpenAIClient" /\ call.pos = "idle") => EveryUserAnswered

(***************************************************************************)
(* Properties of RadioScriptGenerator.generate_all_scripts, checked under  *)
(* SpecRadio.                                                              *)
(***************************************************************************)
\* The run whose texts a message content carries.
RunOf(content) ==
    IF "reply_to" \in DOMAIN content THEN content.reply_to.run ELSE content.run

\* C29: generate_all_scripts resets the shared client's conversation history
\* exactly once, at the first chapter and before any chat call, so at the first
\* chat call of a run the history holds only the system message and that run's
\* first user message, and no message of an earlier run is ever sent.
C29_NoCrossRunLeakage ==
    (call.fn = "AzureOpenAIClient" /\ "radio" \in DOMAIN call)
    => LET r == call.radio
       IN  /\ r.resets <= 1
           /\ r.reset_after = 0
           /\ (r.chats >= 1 => r.resets = 1)
           /\ (r.i > 1 => r.resets = 1)
           /\ (r.pos = "chat" /\ r.i = 1 /\ call.pos # "idle")
                 => call.client.conversation_history
                      = << Message("system", [text |-> "system", run |-> r.run]),
                           Message("user", UserMessage(r.run, 1)) >>
           /\ (r.pos = "chat" /\ r.i = 1 /\ call.api_calls >= 1)
                 => call.sent
                      = << Message("system", [text |-> "system", run |-> r.run]),
                           Message("user", UserMessage(r.run, 1)) >>
           /\ (r.pos = "chat" /\ call.pos = "attempt")
                 => \A k \in DOMAIN UseMessages(call) :
                       RunOf(UseMessages(call)[k].content) = r.run
           /\ r.pos = "chat"
                 => \A k \in DOMAIN call.sent : RunOf(call.sent[k].content) = r.run

\* C29 witness: a second run, started on a generator whose first run left a
\* history, has made the API call of its first chapter.
C29_Witness ==
    /\ call.fn = "AzureOpenAIClient"
    /\ "radio" \in DOMAIN call
    /\ call.radio.run = 2
    /\ call.radio.i = 1
    /\ call.radio.pos = "chat"
    /\ call.api_calls >= 1
    /\ call.radio.discarded >= 2
    /\ Len(call.sent) = 2

(***************************************************************************)
(* Properties of AutoResearchSystem.run, checked under SpecRun.            *)
(***************************************************************************)
\* The three checks of the claim: a diary file was found, its content is not
\* empty, and the prompt-template file exists.
RunChecksPass ==
    /\ call.env.found
    /\ call.env.readable
    /\ call.env.text # << >>
    /\ call.env.template = "exists"

\* C30: the provider's conduct_research is called only after a diary file was
\* found, its content is non-empty and the prompt-template file exists; if any
\* of these checks fails no provider call is made and no report is written;
\* save_research_report is called only after the provider returned a non-empty
\* result; and run never raises.
C30_RunOrdering ==
    call.fn = "run"
    => /\ (call.provider_calls >= 1 => RunChecksPass)
       /\ (~RunChecksPass => call.provider_calls = 0 /\ call.reports = 0)
       /\ (call.save_calls >= 1
             => call.provider_calls = 1 /\ call.env.research = "result")
       /\ call.reports <= call.save_calls
       /\ ~call.raised

====
